---- MODULE Spec2Model ----
(***************************************************************************)
(* mineDrone: perception engine (src/EnvironmentPerception.js) and the two *)
(* variants of the incremental navigator AdaptiveExplorer                  *)
(* (src/RealTimePathfinding.js, lines 1-879 and 880-1480).                  *)
(*                                                                         *)
(* Numbers.  World coordinates are JavaScript doubles; here they are       *)
(* fixed-point integers counted in hundredths of a block (U = 100), so    *)
(* 1.5 is 150.  Block cells ("keys") are integer triples <<x, y, z>>, the   *)
(* model of the strings "x,y,z" built by getPositionKey / getVoxelKey.     *)
(* Times are milliseconds as returned by Date.now().                       *)
(***************************************************************************)
EXTENDS Integers, Sequences, FiniteSets, TLC

VARIABLES
    variant,          \* which of the two AdaptiveExplorer classes is instantiated: "2D" | "3D"
    now,              \* Date.now()
    botPos,           \* bot.entity.position
    botYaw,           \* bot.entity.yaw, in hundredths of a radian
    world,            \* what bot.blockAt returns: cell -> block name
    worldEdits,       \* number of block changes made by the environment so far
    \* ---- EnvironmentPerception
    visibleBlocks,    \* Map key -> record, in insertion order
    memoryMap,        \* Map key -> record, in insertion order
    lastUpdateTime,
    lastBotPosition,
    lastBotYaw,
    passes,           \* scan passes suspended at a between-batch yield
    passLog,          \* history: what each finished pass merged
    \* ---- AdaptiveExplorer (fields shared by both variants)
    finalTarget,
    plannedPath,
    pathIndex,
    stuckCounter,
    lastReplanTime,
    \* ---- AdaptiveExplorer, first variant (knowledge map)
    knowledgeMap,
    obstacleMap,
    safeAreas,
    exploredBoundary,
    lastPosition,
    \* ---- AdaptiveExplorer, second variant (voxel map, water as solid)
    voxelMap,
    safeAirSpaces,
    lastPositionLog,
    \* ---- history of the last handler run (what it saw and returned)
    purged,           \* the knowledge sets right after cleanupKnowledgeMap, before the merge
    call,             \* the exploreToTarget call that has just returned, Null after anything else
    samples,          \* the positions handed to updatePositionTracking since stuck was last acted on, in summary
    \* ---- one knowledgeBasedAStar run, one loop iteration per step
    astar,
    \* ---- exploreToTarget calls waiting at an await for their continuation, oldest first
    suspended,
    \* ---- EnvironmentPerception.blockCache: Map key -> {block, timestamp}, in insertion order
    blockCache,
    \* ---- what the operation run last on its own was given and returned, Null otherwise
    probe,
    \* ---- BotController: its fields, as one record
    controller,
    \* ---- BotController calls waiting at their await of exploreToTarget, oldest first
    awaiting,
    \* ---- processBatch callbacks handed to setTimeout and not yet run, oldest first
    timers,
    \* ---- history of the controller: the first insertion of every remembered position
    firstInsertion

percVars == <<visibleBlocks, memoryMap, lastUpdateTime, lastBotPosition, lastBotYaw, passes, passLog>>
navVars  == <<finalTarget, plannedPath, pathIndex, stuckCounter, lastReplanTime>>
nav2Vars == <<knowledgeMap, obstacleMap, safeAreas, exploredBoundary, lastPosition>>
nav3Vars == <<voxelMap, safeAirSpaces, lastPositionLog>>
histVars == <<purged, call, samples>>
envVars  == <<variant, now, botPos, botYaw, world, worldEdits>>
ctlVars  == <<controller, awaiting, timers, firstInsertion>>
runVars  == <<astar, suspended, blockCache, probe, ctlVars>>
vars == <<envVars, percVars, navVars, nav2Vars, nav3Vars, histVars, runVars>>

\* null / undefined where an object is expected
Null == [null |-> TRUE]
\* a block lookup that yields no block
NoBlock == "null"
\* a block lookup that throws
Thrown == "throws"
\* lastBotYaw before the first pass
NoYaw == 0 - 1000

-----------------------------------------------------------------------------
(* Arithmetic helpers *)

\* one block, in hundredths
U == 10 * 10

Abs(a) == IF a < 0 THEN -a ELSE a
Min(a, b) == IF a < b THEN a ELSE b
Max(a, b) == IF a > b THEN a ELSE b

\* Math.floor of a fixed-point number, as a whole number of blocks
Floor(v) == v \div U

RECURSIVE SqrtSearch(_, _, _)
SqrtSearch(n, lo, hi) ==
    IF lo >= hi THEN lo
    ELSE LET mid == (lo + hi + 1) \div 2
         IN IF mid * mid <= n THEN SqrtSearch(n, mid, hi) ELSE SqrtSearch(n, lo, mid - 1)

\* largest r with r*r <= n
ISqrt(n) == IF n <= 0 THEN 0 ELSE SqrtSearch(n, 0, Min(n, 46340))

\* least r with r*r >= n
CeilSqrt(n) == LET r == ISqrt(n) IN IF r * r = n THEN r ELSE r + 1

Pos(x, y, z) == [x |-> x, y |-> y, z |-> z]

\* centre of a model cell at body height y (in blocks)
CellCentre(cx, y, cz) == Pos(cx * U + U \div 2, y * U, cz * U + U \div 2)

SeqAdd(s, e) == IF \E i \in 1..Len(s) : s[i] = e THEN s ELSE Append(s, e)
SeqDel(s, e) == SelectSeq(s, LAMBDA v : v /= e)
SeqSet(s) == {s[i] : i \in 1..Len(s)}

-----------------------------------------------------------------------------
(* Block names and String.prototype.includes on them *)

BlockTypes == {"air", "stone", "grass_block", "dirt", "cobblestone", "sand",
               "water", "oak_fence", "short_grass", "oak_stairs", "lava", "poppy"}

\* the substrings the program asks about that each block name contains
SubstringsOf(t) ==
    CASE t = "air"         -> {"air"}
      [] t = "oak_stairs"  -> {"air"}
      [] t = "grass_block" -> {"grass"}
      [] t = "short_grass" -> {"grass", "short_grass"}
      [] t = "water"       -> {"water"}
      [] t = "oak_fence"   -> {"fence"}
      [] t = "lava"        -> {"lava"}
      [] t = "poppy"       -> {"poppy"}
      [] OTHER             -> {}

Includes(t, s) == s \in SubstringsOf(t)

-----------------------------------------------------------------------------
(* The model world.  One row of cells along x (z = 0), three levels high:   *)
(* y = 0 is the floor, y = 1 the body level and y = 2 the head level of a   *)
(* bot that stands at y = 1.0.  Every cell outside the row is air.          *)

WorldLen == 4
ScanRadius == 2        \* visionConfig.scanRadius as configured for the model
BatchSize == 2         \* batchSize of performLineOfSightScanAsync, scaled to the row
MaxPasses == 2         \* scan passes that may be suspended at the same time
MaxWorldEdits == 1

WorldCells == {<<x, y, 0>> : x \in 0..(WorldLen - 1), y \in 0..2}

\* bot.blockAt: the block name at a cell; NoBlock when it returns null,
\* Thrown when it throws
blockAt(w, key) == IF key \in DOMAIN w THEN w[key] ELSE "air"

\* a lookup that lets the exception of bot.blockAt through (not what the program does)
lookupBlockNoCatch(w, key) == blockAt(w, key)

\* getBlockFromCache, lines 236-253, when the cache has no entry for the
\* position: the block found, null when the lookup throws
lookupBlock(w, key) == IF blockAt(w, key) = Thrown THEN NoBlock ELSE blockAt(w, key)

CellOf(p) == <<Floor(p.x), Floor(p.y), Floor(p.z)>>

-----------------------------------------------------------------------------
(* EnvironmentPerception *)

updateInterval == 200
eyeHeightOffset == 162
movementThreshold == 100
lineOfSightStep == 50

\* generateCandidateBlocks, for a bot at a cell centre of the row: of the polar
\* samples only those at angle 0 (cell c + r) and 180 (cell c - r) fall in the
\* row; each column is taken over the band floor(y - 2) .. floor(y + 8).
\* Radii advance by 1 below 8 (the model keeps scanRadius below 8).
ColumnCells(cx, bp) ==
    LET lo == Floor(bp.y - 2 * U)
        hi == Floor(bp.y + 8 * U)
        ys == SelectSeq([i \in 1..(hi - lo + 1) |-> lo + i - 1],
                        LAMBDA y : <<cx, y, Floor(bp.z)>> \in WorldCells)
    IN [i \in 1..Len(ys) |-> <<cx, ys[i], Floor(bp.z)>>]

RECURSIVE RingCells(_, _)
RingCells(bp, r) ==
    IF r > ScanRadius THEN <<>>
    ELSE ColumnCells(Floor(bp.x) + r, bp) \o ColumnCells(Floor(bp.x) - r, bp)
         \o RingCells(bp, r + 1)

generateCandidateBlocks(bp) == RingCells(bp, 1)

\* isBlockObstructingRelaxed / doesRayIntersectBlockRelaxed
nonObstructingBlocks == {"grass", "tall_grass", "dead_bush", "poppy", "dandelion",
                         "water", "glass", "ice", "leaves", "fence", "flower"}

doesRayIntersectBlockRelaxed(ray, cell, name) ==
    LET margin == 10
        maxY == IF Includes(name, "slab") /\ ~Includes(name, "double")
                THEN cell[2] * U + 50 - margin ELSE cell[2] * U + U - margin
    IN /\ ray.x >= cell[1] * U + margin /\ ray.x <= cell[1] * U + U - margin
       /\ ray.y >= cell[2] * U + margin /\ ray.y <= maxY
       /\ ray.z >= cell[3] * U + margin /\ ray.z <= cell[3] * U + U - margin

isBlockObstructingRelaxed(name, ray, cell) ==
    IF name = NoBlock \/ name = "air" THEN FALSE
    ELSE IF \E s \in nonObstructingBlocks : Includes(name, s) THEN FALSE
    ELSE doesRayIntersectBlockRelaxed(ray, cell, name)

\* checkLineOfSightRelaxed: the loop, n steps taken so far
RECURSIVE LineOfSightLoop(_, _, _, _, _, _, _)
LineOfSightLoop(w, eye, d, total, target, n, count) ==
    IF ~(lineOfSightStep * n < total - U) THEN TRUE
    ELSE LET m == n + 1
             dist == lineOfSightStep * m
             ray == Pos(eye.x + (d.x * dist) \div total,
                        eye.y + (d.y * dist) \div total,
                        eye.z + (d.z * dist) \div total)
             cell == CellOf(ray)
         IN IF dist < U \/ cell = target
            THEN LineOfSightLoop(w, eye, d, total, target, m, count)
            ELSE IF isBlockObstructingRelaxed(lookupBlock(w, cell), ray, cell)
                 THEN IF count + 1 > 2 THEN FALSE
                      ELSE LineOfSightLoop(w, eye, d, total, target, m, count + 1)
                 ELSE LineOfSightLoop(w, eye, d, total, target, m, count)

SquaredDistance(a, b) ==
    (a.x - b.x) * (a.x - b.x) + (a.y - b.y) * (a.y - b.y) + (a.z - b.z) * (a.z - b.z)

\* calculateDistance / distance3D / Vec3.distanceTo, rounded down to a hundredth
calculateDistance(a, b) == ISqrt(SquaredDistance(a, b))

isBlockVisibleRelaxed(w, eye, target) ==
    LET centre == Pos(target[1] * U + 50, target[2] * U + 50, target[3] * U + 50)
        d == Pos(centre.x - eye.x, centre.y - eye.y, centre.z - eye.z)
        sq == SquaredDistance(centre, eye)
    IN IF sq <= (2 * U) * (2 * U) THEN TRUE
       ELSE LineOfSightLoop(w, eye, d, ISqrt(sq), target, 0, 0)

EyeOf(bp) == Pos(bp.x, bp.y + eyeHeightOffset, bp.z)

\* Map.prototype.set on a Map kept as a sequence of records with a key field
MapSet(m, rec) ==
    IF \E i \in 1..Len(m) : m[i].key = rec.key
    THEN [i \in 1..Len(m) |-> IF m[i].key = rec.key THEN rec ELSE m[i]]
    ELSE Append(m, rec)

MapHas(m, key) == \E i \in 1..Len(m) : m[i].key = key

\* performLineOfSightScanAsync, lines 430-449: one candidate
ScanCandidate(w, vis, eye, cell) ==
    LET name == lookupBlock(w, cell)
    IN IF name = NoBlock \/ Includes(name, "air") \/ Includes(name, "short_grass") THEN vis
       ELSE IF isBlockVisibleRelaxed(w, eye, cell)
            THEN MapSet(vis, [key |-> cell, type |-> name,
                              distance |-> calculateDistance(eye, Pos(cell[1] * U, cell[2] * U, cell[3] * U))])
            ELSE vis

\* one batch: candidates from .. to
RECURSIVE ScanBatch(_, _, _, _, _, _)
ScanBatch(w, vis, eye, cands, from, to) ==
    IF from > to \/ from > Len(cands) THEN vis
    ELSE ScanBatch(w, ScanCandidate(w, vis, eye, cands[from]), eye, cands, from + 1, to)

\* a memory that holds the last scan only (not what the program does)
ReplaceMemory(mem, vis, i) == vis

\* a memory whose records follow the last scan (not what the program does)
RECURSIVE OverwriteMemory(_, _, _)
OverwriteMemory(mem, vis, i) ==
    IF i > Len(vis) THEN mem ELSE OverwriteMemory(MapSet(mem, vis[i]), vis, i + 1)

\* performLineOfSightScanAsync, lines 454-460: the merge into the durable memory
RECURSIVE MemoryMerge(_, _, _)
MemoryMerge(mem, vis, i) ==
    IF i > Len(vis) THEN mem
    ELSE LET b == vis[i]
             keep == ~Includes(b.type, "air") /\ ~Includes(b.type, "short_grass")
         IN MemoryMerge(IF keep /\ ~MapHas(mem, b.key) THEN Append(mem, b) ELSE mem, vis, i + 1)

\* getMemoryBlocksArray
getMemoryBlocksArray(mem) == mem

\* the cooldown of line 469 alone, without the test of lines 472-478
PerceptionDueTimeOnly ==
    ~(now - lastUpdateTime < updateInterval)

\* the guard of updatePerceptionAsync, lines 469-478: TRUE when a pass starts
PerceptionDue ==
    /\ ~(now - lastUpdateTime < updateInterval)
    /\ ~(/\ lastBotPosition /= Null /\ lastBotYaw /= NoYaw
         /\ calculateDistance(botPos, lastBotPosition) < movementThreshold
         /\ Abs(botYaw - lastBotYaw) < 20)

-----------------------------------------------------------------------------
(* AdaptiveExplorer, first variant: the knowledge map *)

maxAge == 60000

\* getPositionKey and parsePositionKey
getPositionKey(p) == <<Floor(p.x), Floor(p.y), Floor(p.z)>>
parsePositionKey(key) == Pos(key[1] * U, key[2] * U, key[3] * U)

\* evaluateBlockSafety, in hundredths
evaluateBlockSafety(t) ==
    IF t = "air" THEN 100
    ELSE IF Includes(t, "water") \/ Includes(t, "lava") \/ Includes(t, "fence") THEN 0
    ELSE IF t \in {"grass_block", "dirt", "stone", "cobblestone"} THEN 80
    ELSE 50

isBlockPassable(t) == t = "air" \/ Includes(t, "grass") \/ Includes(t, "flower")

isBlockObstacle(t) ==
    /\ t /= "air" /\ ~Includes(t, "grass") /\ ~Includes(t, "flower")
    /\ (Includes(t, "water") \/ Includes(t, "fence"))

isBlockSafe(t) ==
    /\ t \in {"grass_block", "dirt", "stone", "cobblestone"}
    /\ ~Includes(t, "water") /\ ~Includes(t, "fence")

\* Map.prototype.set on a Map kept as a function
FunSet(f, k, v) == (k :> v) @@ f
FunDel(f, ks) == [x \in DOMAIN f \ ks |-> f[x]]

EmptyFun == [x \in {} |-> Null]

Entry(t, time) ==
    [type |-> t, timestamp |-> time, safe |-> evaluateBlockSafety(t), passable |-> isBlockPassable(t)]

\* cleanupKnowledgeMap: lines 616-620, the keys to delete
StaleKeys(K, time) == {k \in DOMAIN K.knowledgeMap : time - K.knowledgeMap[k].timestamp > maxAge}

\* a purge that forgets the derived sets (not what the program does)
cleanupEntriesOnly(K, time) == [K EXCEPT !.knowledgeMap = FunDel(@, StaleKeys(K, time))]

\* cleanupKnowledgeMap: lines 622-626
cleanupKnowledgeMap(K, time) ==
    LET keysToDelete == StaleKeys(K, time)
    IN [K EXCEPT !.knowledgeMap = FunDel(@, keysToDelete),
                 !.obstacleMap = @ \ keysToDelete,
                 !.safeAreas = SelectSeq(@, LAMBDA k : k \notin keysToDelete)]

\* updateExploredBoundary
updateExploredBoundary(K, key) == [K EXCEPT !.exploredBoundary = SeqAdd(@, key)]

\* updateKnowledgeMap, lines 94-113: the fence headroom rule
MarkAboveFence(K, key, time) ==
    LET aboveKey == <<key[1], key[2] + 1, key[3]>>
    IN [K EXCEPT !.obstacleMap = @ \cup {aboveKey},
                 !.safeAreas = SeqDel(@, aboveKey),
                 !.knowledgeMap = FunSet(@, aboveKey,
                     [type |-> "air", timestamp |-> time, safe |-> 0, passable |-> FALSE])]

\* a classification whose safe branch leaves the obstacle set alone (not what the program does)
ClassifyBlockAddOnly(K, b, time) ==
    IF isBlockObstacle(b.type)
    THEN LET K1 == [K EXCEPT !.obstacleMap = @ \cup {b.key}, !.safeAreas = SeqDel(@, b.key)]
         IN IF Includes(b.type, "fence") THEN MarkAboveFence(K1, b.key, time) ELSE K1
    ELSE IF isBlockSafe(b.type) THEN [K EXCEPT !.safeAreas = SeqAdd(@, b.key)] ELSE K

\* updateKnowledgeMap, lines 94-117: obstacle / safe classification of one block
ClassifyBlock(K, b, time) ==
    IF isBlockObstacle(b.type)
    THEN LET K1 == [K EXCEPT !.obstacleMap = @ \cup {b.key}, !.safeAreas = SeqDel(@, b.key)]
         IN IF Includes(b.type, "fence") THEN MarkAboveFence(K1, b.key, time) ELSE K1
    ELSE IF isBlockSafe(b.type)
         THEN [K EXCEPT !.safeAreas = SeqAdd(@, b.key), !.obstacleMap = @ \ {b.key}]
         ELSE K

\* a loop body that leaves the entry of a known key as it is (not what the program does)
MergeBlockOnce(K, b, time) ==
    LET K1 == IF b.key \in DOMAIN K.knowledgeMap THEN K
              ELSE [K EXCEPT !.knowledgeMap = FunSet(@, b.key, Entry(b.type, time))]
    IN updateExploredBoundary(ClassifyBlock(K1, b, time), b.key)

\* updateKnowledgeMap, lines 85-120: the body of the loop for one memory block
MergeBlock(K, b, time) ==
    LET K1 == [K EXCEPT !.knowledgeMap = FunSet(@, b.key, Entry(b.type, time))]
    IN updateExploredBoundary(ClassifyBlock(K1, b, time), b.key)

\* the loop of lines 85-120 from block i on (the test on K, never true, has
\* the map evaluated at every step rather than at the end)
RECURSIVE MergeBlocks(_, _, _, _)
MergeBlocks(K, blocks, i, time) ==
    IF i > Len(blocks) \/ DOMAIN K = {} THEN K
    ELSE MergeBlocks(MergeBlock(K, blocks[i], time), blocks, i + 1, time)

\* updateKnowledgeMap
updateKnowledgeMap(K, mem, time) ==
    MergeBlocks(cleanupKnowledgeMap(K, time), getMemoryBlocksArray(mem), 1, time)

Knowledge == [knowledgeMap |-> knowledgeMap, obstacleMap |-> obstacleMap,
              safeAreas |-> safeAreas, exploredBoundary |-> exploredBoundary]

\* the knowledge collections as the constructor leaves them
EmptyKnowledge == [knowledgeMap |-> EmptyFun, obstacleMap |-> {}, safeAreas |-> <<>>,
                   exploredBoundary |-> <<>>]

\* what cleanupKnowledgeMap left, recorded before the merge loop runs
PurgeRecord(K, time) ==
    LET C == cleanupKnowledgeMap(K, time)
    IN [time |-> time, removed |-> StaleKeys(K, time), known |-> DOMAIN C.knowledgeMap,
        obstacleMap |-> C.obstacleMap, safeAreas |-> C.safeAreas]

-----------------------------------------------------------------------------
(* AdaptiveExplorer, first variant: queries on the knowledge map.  K is the   *)
(* record of the four knowledge collections, by the block level of the bot   *)
(* (Math.floor(bot.entity.position.y)).                                      *)

goalRadius == 150
maxJumpHeight == 100
forceReplanDistance == 800
replanInterval == 1000
maxStuckCount == 5
avoidanceRadius == 5
maxIterations == 200

Known(K, key) == key \in DOMAIN K.knowledgeMap

\* distance2D squared, in hundredths squared
Dist2Sq(a, b) == (a.x - b.x) * (a.x - b.x) + (a.z - b.z) * (a.z - b.z)

\* distance2D rounded down to a hundredth
distance2D(a, b) == ISqrt(Dist2Sq(a, b))

isHeightAccessible(from, to) == Abs(to.y - from.y) <= maxJumpHeight

\* getGroundLevelKnowledge: the loop from y down to by - 5
RECURSIVE GroundScan(_, _, _, _, _)
GroundScan(K, by, cx, cz, y) ==
    IF y < by - 5 THEN by
    ELSE LET key == <<cx, y, cz>>
         IN IF /\ Known(K, key)
               /\ K.knowledgeMap[key].type /= "air"
               /\ ~Includes(K.knowledgeMap[key].type, "water")
               /\ ~Includes(K.knowledgeMap[key].type, "fence")
            THEN y + 1
            ELSE GroundScan(K, by, cx, cz, y - 1)

\* getGroundLevelKnowledge, the result in hundredths
getGroundLevelKnowledge(K, by, x, z) == U * GroundScan(K, by, Floor(x), Floor(z), by + 5)

isPositionSafeKnowledge(K, p) ==
    LET groundKey == <<Floor(p.x), Floor(p.y - U), Floor(p.z)>>
        bodyKey == <<Floor(p.x), Floor(p.y), Floor(p.z)>>
        headKey == <<Floor(p.x), Floor(p.y + U), Floor(p.z)>>
        ground == IF Known(K, groundKey) THEN K.knowledgeMap[groundKey].type ELSE NoBlock
    IN IF bodyKey \in K.obstacleMap \/ headKey \in K.obstacleMap THEN FALSE
       ELSE IF bodyKey \in SeqSet(K.safeAreas) THEN TRUE
       ELSE IF ground = "air" \/ Includes(ground, "water") THEN FALSE
       ELSE IF Known(K, bodyKey) /\ ~K.knowledgeMap[bodyKey].passable THEN FALSE
       ELSE IF Known(K, headKey) /\ ~K.knowledgeMap[headKey].passable THEN FALSE
       ELSE IF Includes(ground, "fence") THEN FALSE
       ELSE TRUE

\* a point with its y taken from getGroundLevelKnowledge
OnGround(K, by, x, z) == Pos(x, getGroundLevelKnowledge(K, by, x, z), z)

\* Math.ceil(distance2D * 2) for a squared distance in hundredths squared
CeilSteps(sq) == (CeilSqrt(4 * sq) + U - 1) \div U

\* isPathClearInKnowledgeMap (with steps = 0 every sample is NaN and nothing is known there)
isPathClearInKnowledgeMap(K, by, start, end) ==
    LET steps == CeilSteps(Dist2Sq(start, end))
    IN \A i \in 0..steps :
          steps = 0 \/
          isPositionSafeKnowledge(K, OnGround(K, by,
              start.x + ((end.x - start.x) * i) \div steps,
              start.z + ((end.z - start.z) * i) \div steps))

-----------------------------------------------------------------------------
(* knowledgeBasedAStar.  Every g score read in the loop is                    *)
(* gScore.get(key) || Infinity, which is Infinity also for the start (0 ||   *)
(* Infinity), so every tentative g and every f score but the start's is      *)
(* Infinity: the sort comparator yields NaN and leaves the open list in      *)
(* insertion order, and a neighbour already in the open list is always       *)
(* skipped (Infinity >= Infinity).  The scores therefore carry no            *)
(* information and are not kept in the search state.                         *)

worldToGrid(p) == <<Floor(p.x), Floor(p.y), Floor(p.z)>>
gridToWorldX(g) == g[1] * U + U \div 2
gridToWorldZ(g) == g[3] * U + U \div 2

\* gridDistance(a, b) < 1.5
NearGoal(a, b) == 4 * ((a[1] - b[1]) * (a[1] - b[1]) + (a[3] - b[3]) * (a[3] - b[3])) < 9

\* getKnowledgeBasedNeighbors
getKnowledgeBasedNeighbors(g) ==
    LET directions == << <<1, 0>>, <<-1, 0>>, <<0, 1>>, <<0, -1>>,
                         <<1, 1>>, <<-1, -1>>, <<1, -1>>, <<-1, 1>> >>
    IN [i \in 1..8 |-> <<g[1] + directions[i][1], g[2], g[3] + directions[i][2]>>]

\* reconstructPath: the waypoints before the goal, walking cameFrom back from node
RECURSIVE PathBack(_, _, _, _, _)
PathBack(K, by, cameFrom, node, acc) ==
    IF node \notin DOMAIN cameFrom THEN acc
    ELSE PathBack(K, by, cameFrom, cameFrom[node],
                  <<OnGround(K, by, gridToWorldX(node), gridToWorldZ(node))>> \o acc)

\* an array returned where null may be returned instead
Some(seq) == [array |-> seq]

reconstructPath(K, by, cameFrom, current, goal) ==
    PathBack(K, by, cameFrom, current, <<OnGround(K, by, gridToWorldX(goal), gridToWorldZ(goal))>>)

\* a search that hands back the way to the last node when it gives up (not what the program does)
PartialPathOnFailure(K, by, st) == Some(reconstructPath(K, by, st.cameFrom, st.last, st.goal))

\* the value returned when the loop ends without reaching the goal: null
ResultOnFailure(K, by, st) == Null

\* lines 308-334: the neighbours of the popped node, one after the other
RECURSIVE Expand(_, _, _, _, _)
Expand(K, by, st, current, i) ==
    IF i > 8 THEN st
    ELSE LET n == getKnowledgeBasedNeighbors(current)[i]
             skip == \/ n \in st.closedSet
                     \/ ~isPositionSafeKnowledge(K, OnGround(K, by, gridToWorldX(n), gridToWorldZ(n)))
                     \/ n \in SeqSet(st.openSet)
         IN Expand(K, by,
                   IF skip THEN st
                   ELSE [st EXCEPT !.openSet = Append(@, n), !.cameFrom = FunSet(@, n, current)],
                   current, i + 1)

\* the state of a search before the first iteration
AStarInit(start, goal) ==
    [openSet |-> <<worldToGrid(start)>>, closedSet |-> {}, cameFrom |-> EmptyFun,
     iterations |-> 0, goal |-> worldToGrid(goal), last |-> worldToGrid(start),
     done |-> FALSE, result |-> Null]

\* a loop condition that lets one more iteration through (not what the program does)
AStarContinuesOneMore(st) == st.openSet /= <<>> /\ st.iterations <= maxIterations

\* the loop condition
AStarContinues(st) == st.openSet /= <<>> /\ st.iterations < maxIterations

\* one evaluation of the loop condition and, if it holds, one iteration
AStarStep(K, by, st) ==
    IF ~AStarContinues(st)
    THEN [st EXCEPT !.done = TRUE, !.result = ResultOnFailure(K, by, st)]
    ELSE LET current == Head(st.openSet)
             s1 == [st EXCEPT !.iterations = @ + 1, !.openSet = Tail(@), !.last = current]
         IN IF NearGoal(current, st.goal)
            THEN [s1 EXCEPT !.done = TRUE,
                            !.result = Some(reconstructPath(K, by, st.cameFrom, current, st.goal))]
            ELSE Expand(K, by, [s1 EXCEPT !.closedSet = @ \cup {current}], current, 1)

\* up to n iterations of the loop
RECURSIVE AStarSteps(_, _, _, _)
AStarSteps(K, by, st, n) ==
    IF n = 0 \/ st.done THEN st ELSE AStarSteps(K, by, AStarStep(K, by, st), n - 1)

\* the loop run to its end, sixteen iterations at a time
RECURSIVE AStarRun(_, _, _)
AStarRun(K, by, st) == IF st.done THEN st ELSE AStarRun(K, by, AStarSteps(K, by, st, 16))

knowledgeBasedAStar(K, by, start, goal) == AStarRun(K, by, AStarInit(start, goal)).result

-----------------------------------------------------------------------------
(* AdaptiveExplorer, first variant: planning.  Directions are kept           *)
(* unnormalised with their length, [x, z, len]; a unit component times k is  *)
(* Scale(component, k, len), rounded down to a hundredth.  Scores are        *)
(* integers: the weights in hundredths times the terms in hundredths.        *)

getDirection2D(from, to) ==
    [x |-> to.x - from.x, z |-> to.z - from.z, len |-> distance2D(from, to)]

Scale(c, k, len) == IF len = 0 THEN 0 ELSE (c * k) \div len

\* dot2D of two normalised directions, in hundredths
dot2D(d1, d2) ==
    IF d1.len = 0 \/ d2.len = 0 THEN 0
    ELSE ((d1.x * d2.x + d1.z * d2.z) * U) \div (d1.len * d2.len)

\* the first element of greatest score: what sort((a, b) => b.score - a.score)
\* puts at index 0
BestOf(options) ==
    options[CHOOSE i \in 1..Len(options) :
                /\ \A j \in 1..Len(options) : options[j].score <= options[i].score
                /\ \A j \in 1..(i - 1) : options[j].score < options[i].score].position

isPositionInKnownArea(K, p) ==
    \E dx \in -2..2, dz \in -2..2 :
        Known(K, <<Floor(p.x + dx * U), Floor(p.y), Floor(p.z + dz * U)>>)

adjustToGroundKnowledge(K, by, p) == OnGround(K, by, p.x, p.z)

\* a step of 15, the far end of the candidate band, instead of 3 (not what the program does)
generateFarTarget(cur, direction) ==
    Pos(cur.x + Scale(direction.x, 15 * U, direction.len), cur.y,
        cur.z + Scale(direction.z, 15 * U, direction.len))

generateNearTarget(cur, direction) ==
    Pos(cur.x + Scale(direction.x, 3 * U, direction.len), cur.y,
        cur.z + Scale(direction.z, 3 * U, direction.len))

countNearbyUnknownCells(K, p, radius) ==
    Cardinality({d \in (-radius..radius) \X (-radius..radius) :
        ~Known(K, <<Floor(p.x + d[1] * U), Floor(p.y), Floor(p.z + d[2] * U)>>)})

\* calculateExplorationValue, in hundredths
calculateExplorationValue(K, p) == Min(U, (countNearbyUnknownCells(K, p, 5) * U) \div 20)

\* evaluateIntermediateTarget; 0 stands for every score that is not > 0
evaluateIntermediateTarget(K, by, cur, candidate, final, direction) ==
    IF ~isPositionSafeKnowledge(K, candidate) \/ ~isHeightAccessible(cur, candidate) THEN 0
    ELSE IF Dist2Sq(cur, candidate) < (2 * U) * (2 * U) \/ Dist2Sq(cur, candidate) > (15 * U) * (15 * U)
    THEN 0
    ELSE LET whole == distance2D(cur, final)
             progressScore == IF whole = 0 THEN 0
                              ELSE Max(0, U - (distance2D(candidate, final) * U) \div whole)
             directionScore == Max(0, dot2D(direction, getDirection2D(cur, candidate)))
             accessibilityScore == IF isPathClearInKnowledgeMap(K, by, cur, candidate) THEN U ELSE 30
             explorationScore == calculateExplorationValue(K, candidate)
         IN progressScore * 40 + directionScore * 30 + accessibilityScore * 20 + explorationScore * 10

\* findBestIntermediateTarget, lines 195-217: the candidates of one key list
RECURSIVE IntermediateCandidates(_, _, _, _, _, _, _)
IntermediateCandidates(K, by, cur, final, direction, keys, i) ==
    IF i > Len(keys) THEN <<>>
    ELSE LET flat == parsePositionKey(keys[i])
             pos == OnGround(K, by, flat.x, flat.z)
             score == evaluateIntermediateTarget(K, by, cur, pos, final, direction)
         IN (IF score > 0 THEN <<[position |-> pos, score |-> score]>> ELSE <<>>)
            \o IntermediateCandidates(K, by, cur, final, direction, keys, i + 1)

\* findBestIntermediateTarget, lines 192-217: the candidates array after both loops
CandidatePool(K, by, cur, final) ==
    LET direction == getDirection2D(cur, final)
    IN IntermediateCandidates(K, by, cur, final, direction, K.exploredBoundary, 1)
       \o IntermediateCandidates(K, by, cur, final, direction, K.safeAreas, 1)

findBestIntermediateTarget(K, by, cur, final) ==
    IF isPositionInKnownArea(K, final) THEN adjustToGroundKnowledge(K, by, final)
    ELSE LET candidates == CandidatePool(K, by, cur, final)
         IN IF candidates /= <<>> THEN BestOf(candidates)
            ELSE generateNearTarget(cur, getDirection2D(cur, final))

\* optimizePath, the inner loop: the farthest j > i + 1 with a clear way, or i + 1
\* (indices as in the program, from 0)
RECURSIVE FarthestClear(_, _, _, _, _)
FarthestClear(K, by, path, i, j) ==
    IF j > i + 1 /\ ~isPathClearInKnowledgeMap(K, by, path[i + 1], path[j + 1])
    THEN FarthestClear(K, by, path, i, j - 1)
    ELSE j

RECURSIVE OptimizeFrom(_, _, _, _)
OptimizeFrom(K, by, path, i) ==
    IF ~(i < Len(path) - 1) THEN <<>>
    ELSE LET j == FarthestClear(K, by, path, i, Min(i + 3, Len(path) - 1))
         IN <<path[j + 1]>> \o OptimizeFrom(K, by, path, j)

optimizePath(K, by, path) ==
    IF Len(path) <= 2 THEN path ELSE <<path[1]>> \o OptimizeFrom(K, by, path, 0)

\* generateExploredPath, lines 800-810
RECURSIVE ExploredSteps(_, _, _, _, _, _)
ExploredSteps(K, by, cur, direction, i, steps) ==
    IF i > steps THEN <<>>
    ELSE LET stepPos == OnGround(K, by, cur.x + Scale(direction.x, 2 * i * U, direction.len),
                                        cur.z + Scale(direction.z, 2 * i * U, direction.len))
         IN (IF isPositionSafeKnowledge(K, stepPos) THEN <<stepPos>> ELSE <<>>)
            \o ExploredSteps(K, by, cur, direction, i + 1, steps)

\* an exploratory path without the current position in front (not what the program does)
generateExploredPathNoStart(K, by, cur, target) ==
    ExploredSteps(K, by, cur, getDirection2D(cur, target), 1,
                  Min(5, distance2D(cur, target) \div (2 * U)))

generateExploredPath(K, by, cur, target) ==
    <<cur>> \o ExploredSteps(K, by, cur, getDirection2D(cur, target), 1,
                             Min(5, distance2D(cur, target) \div (2 * U)))

\* the navigation fields of the explorer as one record
Nav == [finalTarget |-> finalTarget, plannedPath |-> plannedPath, pathIndex |-> pathIndex,
        stuckCounter |-> stuckCounter, lastReplanTime |-> lastReplanTime,
        lastPosition |-> lastPosition]

\* plannedPath[i] with the program's index (from 0)
At(path, i) == path[i + 1]

replanPath(N, K, by, cur, time) ==
    LET intermediateTarget == findBestIntermediateTarget(K, by, cur, N.finalTarget)
        path == knowledgeBasedAStar(K, by, cur, intermediateTarget)
        N1 == [N EXCEPT !.lastReplanTime = time, !.stuckCounter = 0]
    IN IF path /= Null /\ Len(path.array) > 1
       THEN [N1 EXCEPT !.plannedPath = optimizePath(K, by, path.array), !.pathIndex = 1]
       ELSE LET explored == generateExploredPath(K, by, cur, intermediateTarget)
            IN [N1 EXCEPT !.plannedPath = explored, !.pathIndex = Min(1, Len(explored) - 1)]

isStuck(N) == N.stuckCounter >= maxStuckCount

hasFoundPath == FALSE

\* a replanning test without the cooldown (not what the program does)
needsReplanningNoCooldown(N, K, by, cur, time) ==
    IF isStuck(N) THEN TRUE
    ELSE IF /\ Len(N.plannedPath) > 0 /\ N.pathIndex < Len(N.plannedPath)
            /\ \/ ~isPathClearInKnowledgeMap(K, by, cur, At(N.plannedPath, N.pathIndex))
               \/ Dist2Sq(cur, At(N.plannedPath, N.pathIndex)) > forceReplanDistance * forceReplanDistance
    THEN TRUE
    ELSE Len(N.plannedPath) = 0 \/ N.pathIndex >= Len(N.plannedPath)

needsReplanning(N, K, by, cur, time) ==
    IF time - N.lastReplanTime < replanInterval THEN FALSE
    ELSE IF isStuck(N) THEN TRUE
    ELSE IF /\ Len(N.plannedPath) > 0 /\ N.pathIndex < Len(N.plannedPath)
            /\ \/ ~isPathClearInKnowledgeMap(K, by, cur, At(N.plannedPath, N.pathIndex))
               \/ Dist2Sq(cur, At(N.plannedPath, N.pathIndex)) > forceReplanDistance * forceReplanDistance
    THEN TRUE
    ELSE IF hasFoundPath THEN TRUE
    ELSE Len(N.plannedPath) = 0 \/ N.pathIndex >= Len(N.plannedPath)

-----------------------------------------------------------------------------
(* AdaptiveExplorer, first variant: the next step *)

\* evaluateDetourOption
evaluateDetourOption(cur, detourPoint, originalTarget) ==
    LET directDistance == distance2D(cur, originalTarget)
        progressScore == IF directDistance = 0 THEN 0
                         ELSE Max(0, U - (distance2D(detourPoint, originalTarget) * U) \div directDistance)
        efficiencyScore == Max(0, U - distance2D(cur, detourPoint) \div 5)
    IN progressScore * 70 + efficiencyScore * 30

\* findDetourPath, lines 381-399: the order in which the detour points are tried
DetourTries ==
    LET sides == <<-1, 1>>
    IN [n \in 1..(2 * (avoidanceRadius - 1) * 3) |->
           [side |-> sides[((n - 1) \div ((avoidanceRadius - 1) * 3)) + 1],
            distance |-> 2 + (((n - 1) % ((avoidanceRadius - 1) * 3)) \div 3),
            forward |-> 1 + ((n - 1) % 3)]]

RECURSIVE DetourOptions(_, _, _, _, _)
DetourOptions(K, by, cur, blockedTarget, n) ==
    IF n > Len(DetourTries) THEN <<>>
    ELSE LET t == DetourTries[n]
             direction == getDirection2D(cur, blockedTarget)
             detourPoint == OnGround(K, by,
                 cur.x + Scale(direction.x, t.forward * U, direction.len)
                       + Scale(-direction.z, t.distance * t.side * U, direction.len),
                 cur.z + Scale(direction.z, t.forward * U, direction.len)
                       + Scale(direction.x, t.distance * t.side * U, direction.len))
             ok == /\ isPositionSafeKnowledge(K, detourPoint)
                   /\ isPathClearInKnowledgeMap(K, by, cur, detourPoint)
                   /\ isHeightAccessible(cur, detourPoint)
         IN (IF ok THEN <<[position |-> detourPoint,
                           score |-> evaluateDetourOption(cur, detourPoint, blockedTarget)]>>
             ELSE <<>>)
            \o DetourOptions(K, by, cur, blockedTarget, n + 1)

\* Array.prototype.splice(i, 1, e): the element at i replaced (not what the program does)
SpliceOver(path, i, e) == SubSeq(path, 1, i) \o <<e>> \o SubSeq(path, i + 2, Len(path))

\* Array.prototype.splice(i, 0, e), i from 0
Splice(path, i, e) == SubSeq(path, 1, i) \o <<e>> \o SubSeq(path, i + 1, Len(path))

\* findDetourPath: the explorer afterwards and the point returned
findDetourPath(N, K, by, cur, blockedTarget) ==
    LET detourOptions == DetourOptions(K, by, cur, blockedTarget, 1)
    IN IF detourOptions /= <<>>
       THEN [nav |-> [N EXCEPT !.plannedPath = Splice(@, N.pathIndex, BestOf(detourOptions))],
             step |-> BestOf(detourOptions)]
       ELSE [nav |-> N, step |-> Null]

\* getNextStep: the explorer afterwards and the point returned
getNextStep(N, K, by, cur) ==
    IF Len(N.plannedPath) > 0 /\ N.pathIndex < Len(N.plannedPath)
    THEN LET nextWaypoint == At(N.plannedPath, N.pathIndex)
         IN IF Dist2Sq(cur, nextWaypoint) < goalRadius * goalRadius
            THEN [nav |-> [N EXCEPT !.pathIndex = @ + 1],
                  step |-> IF N.pathIndex + 1 < Len(N.plannedPath)
                           THEN At(N.plannedPath, N.pathIndex + 1) ELSE Null]
            ELSE IF /\ isPathClearInKnowledgeMap(K, by, cur, nextWaypoint)
                    /\ isHeightAccessible(cur, nextWaypoint)
                 THEN [nav |-> N, step |-> nextWaypoint]
                 ELSE findDetourPath(N, K, by, cur, nextWaypoint)
    ELSE [nav |-> N, step |-> Null]

\* updatePositionTracking
updatePositionTracking(N, cur) ==
    [N EXCEPT !.stuckCounter = IF N.lastPosition = Null THEN @
                               ELSE IF Dist2Sq(cur, N.lastPosition) < 50 * 50 THEN @ + 1 ELSE 0,
              !.lastPosition = cur]

\* findNearestUnexploredArea: the offsets in the order of the two loops
SearchOffsets == [n \in 1..81 |-> <<(((n - 1) \div 9) * 2) - 8, (((n - 1) % 9) * 2) - 8>>]

UnexploredAt(K, by, cur, n) ==
    OnGround(K, by, cur.x + SearchOffsets[n][1] * U, cur.z + SearchOffsets[n][2] * U)

UnexploredOk(K, p) == ~isPositionInKnownArea(K, p) /\ isPositionSafeKnowledge(K, p)

\* the first nearest admissible point (score 1 / (distance + 1) falls with the distance)
findNearestUnexploredArea(K, by, cur) ==
    LET at == {<<n, UnexploredAt(K, by, cur, n)>> : n \in 1..81}
        ok == {<<c[1], Dist2Sq(cur, c[2]), c[2]>> : c \in {c \in at : UnexploredOk(K, c[2])}}
    IN IF ok = {} THEN Null
       ELSE (CHOOSE c \in ok : \A e \in ok : c[2] < e[2] \/ (c[2] = e[2] /\ c[1] <= e[1]))[3]

\* findRandomSafeMovement: the offsets Math.random may produce in the model
\* (angle a multiple of 90 degrees, distance 1, 2 or 3)
RandomOffsets == {<<dx * U, 0>> : dx \in {-3, -2, -1, 1, 2, 3}} \cup {<<0, dz * U>> : dz \in {-1, 1}}

RandomTarget(K, by, cur, off) == OnGround(K, by, cur.x + off[1], cur.z + off[2])

RandomTargetOk(K, by, cur, off) ==
    /\ isPositionSafeKnowledge(K, RandomTarget(K, by, cur, off))
    /\ isHeightAccessible(cur, RandomTarget(K, by, cur, off))

\* what findRandomSafeMovement may return: any admissible target, or null
\* when ten draws in a row can all be inadmissible
RandomSafeMovements(K, by, cur) ==
    {RandomTarget(K, by, cur, off) : off \in {o \in RandomOffsets : RandomTargetOk(K, by, cur, o)}}
    \cup (IF \E o \in RandomOffsets : ~RandomTargetOk(K, by, cur, o) THEN {Null} ELSE {})

\* (Math.random() - 0.5) * 0.5, in hundredths
Jitters == {0 - 25, 0, 24}

\* exploratoryMovement: the points it may return
exploratoryMovement(K, by, cur) ==
    LET explorationTarget == [found |-> findNearestUnexploredArea(K, by, cur)]
        randomSafeTargets == [any |-> RandomSafeMovements(K, by, cur)]
    IN IF explorationTarget.found /= Null
       THEN {explorationTarget.found}
       ELSE (randomSafeTargets.any \ {Null})
            \cup (IF Null \in randomSafeTargets.any
                  THEN {Pos(cur.x + jx, cur.y, cur.z + jz) : jx \in Jitters, jz \in Jitters}
                  ELSE {})

-----------------------------------------------------------------------------
(* AdaptiveExplorer, second variant: the voxel map, water taken as solid.    *)
(* V is the voxelMap (voxel key -> block type; its analysis is a function    *)
(* of the type), S the safeAirSpaces in insertion order.                     *)

goalRadius3D == 100
positionLogSize == 5

knownSolids == {"stone", "dirt", "grass_block", "cobblestone", "sand", "gravel",
                "oak_log", "oak_planks", "oak_leaves", "birch_log", "spruce_log",
                "coal_ore", "iron_ore", "gold_ore", "diamond_ore"}

analyze3DBlock(t) ==
    LET isWater == Includes(t, "water")
        isAir == t \in {"air", "void_air", "cave_air"}
        isDangerous == Includes(t, "lava") \/ Includes(t, "fire") \/ Includes(t, "cactus")
        isSolid == IF isWater THEN TRUE ELSE IF isAir THEN FALSE ELSE t \in knownSolids
        isPassable == IF isWater THEN FALSE ELSE IF isAir THEN TRUE ELSE ~isSolid /\ ~isDangerous
    IN [isAir |-> isAir, isSolid |-> isSolid, isWater |-> isWater, isDangerous |-> isDangerous,
        isPassable |-> isPassable, supportWeight |-> isSolid /\ ~isDangerous]

getVoxelKey(p) == <<Floor(p.x), Floor(p.y), Floor(p.z)>>
parseVoxelKey(key) == Pos(key[1] * U + U \div 2, key[2] * U + U \div 2, key[3] * U + U \div 2)

HasVoxel(V, p) == getVoxelKey(p) \in DOMAIN V
VoxelAnalysis(V, p) == analyze3DBlock(V[getVoxelKey(p)])

isWaterPosition(V, p) == HasVoxel(V, p) /\ VoxelAnalysis(V, p).isWater

\* a test of the body position alone (not what the program does)
isBodyInWater(V, cur) == isWaterPosition(V, cur)

isCurrentlyInWater(V, cur) ==
    \/ isWaterPosition(V, cur)
    \/ isWaterPosition(V, Pos(cur.x, cur.y - 50, cur.z))
    \/ isWaterPosition(V, Pos(cur.x, cur.y + 50, cur.z))

distance3D(a, b) == calculateDistance(a, b)

getDirection3D(from, to) ==
    [x |-> to.x - from.x, y |-> to.y - from.y, z |-> to.z - from.z, len |-> distance3D(from, to)]

\* Math.cos and Math.sin of the angles the program uses, in thousandths
Cos1000(angle) ==
    CASE angle = 0 -> 1000 [] angle = 30 -> 866 [] angle = 45 -> 707 [] angle = 60 -> 500
      [] angle = 90 -> 0 [] angle = 120 -> 0 - 500 [] angle = 135 -> 0 - 707
      [] angle = 150 -> 0 - 866 [] angle = 180 -> 0 - 1000 [] angle = 210 -> 0 - 866
      [] angle = 225 -> 0 - 707 [] angle = 240 -> 0 - 500 [] angle = 270 -> 0
      [] angle = 300 -> 500 [] angle = 315 -> 707 [] angle = 330 -> 866

Sin1000(angle) == Cos1000((angle + 270) % 360)

\* a point at the given angle and distance (in blocks) from cur, at height y
Polar(cur, angle, distance, y) ==
    Pos(cur.x + (Cos1000(angle) * distance * U) \div 1000, y,
        cur.z + (Sin1000(angle) * distance * U) \div 1000)

isDryLandPosition(V, p) ==
    LET below == Pos(p.x, p.y - U, p.z)
    IN IF HasVoxel(V, p) /\ (VoxelAnalysis(V, p).isWater \/ ~VoxelAnalysis(V, p).isPassable) THEN FALSE
       ELSE HasVoxel(V, below) /\ VoxelAnalysis(V, below).supportWeight /\ ~VoxelAnalysis(V, below).isWater

\* findNearestDryLand
DryLandOk(V, cur, airKey) ==
    LET airPos == parseVoxelKey(airKey)
        groundPos == Pos(airPos.x, airPos.y - U, airPos.z)
    IN /\ HasVoxel(V, groundPos)
       /\ VoxelAnalysis(V, groundPos).supportWeight
       /\ ~VoxelAnalysis(V, groundPos).isWater
       /\ ~isWaterPosition(V, airPos)
       /\ SquaredDistance(cur, airPos) > U * U

\* a search of the cells above every known voxel, whatever S holds (not what the program does)
findDryLandInVoxels(V, S, cur) ==
    LET cells == {<<k[1], k[2] + 1, k[3]>> : k \in DOMAIN V}
        ok == {c \in cells : DryLandOk(V, cur, c)}
    IN IF ok = {} THEN Null
       ELSE parseVoxelKey(CHOOSE c \in ok :
                \A e \in ok : SquaredDistance(cur, parseVoxelKey(c)) <= SquaredDistance(cur, parseVoxelKey(e)))

findNearestDryLand(V, S, cur) ==
    LET ok == {i \in 1..Len(S) : DryLandOk(V, cur, S[i])}
        d(i) == SquaredDistance(cur, parseVoxelKey(S[i]))
    IN IF ok = {} THEN Null
       ELSE parseVoxelKey(S[CHOOSE i \in ok : /\ \A j \in ok : d(i) <= d(j)
                                              /\ \A j \in ok : j < i => d(i) < d(j)])

\* findNonWaterDirection: the candidates in the order of the two loops
NonWaterTries ==
    LET directions == << <<1, 0>>, <<-1, 0>>, <<0, 1>>, <<0, -1>>,
                         <<1, 1>>, <<-1, 1>>, <<1, -1>>, <<-1, -1>> >>
    IN [n \in 1..32 |-> <<directions[((n - 1) \div 4) + 1][1] * (2 + ((n - 1) % 4)),
                          directions[((n - 1) \div 4) + 1][2] * (2 + ((n - 1) % 4))>>]

\* the first element of a sequence of points that satisfies ok, or null
RECURSIVE FirstPoint(_, _, _)
FirstPoint(points, ok(_), n) ==
    IF n > Len(points) THEN Null
    ELSE IF ok(points[n]) THEN points[n] ELSE FirstPoint(points, ok, n + 1)

findNonWaterDirection(V, cur) ==
    FirstPoint([n \in 1..32 |-> Pos(cur.x + NonWaterTries[n][1] * U, cur.y, cur.z + NonWaterTries[n][2] * U)],
               LAMBDA c : ~isWaterPosition(V, c), 1)

\* emergencyExitWater: the point returned
emergencyExitWater(V, S, cur) ==
    IF findNearestDryLand(V, S, cur) /= Null THEN findNearestDryLand(V, S, cur)
    ELSE IF findNonWaterDirection(V, cur) /= Null THEN findNonWaterDirection(V, cur)
    ELSE Pos(cur.x, cur.y + 3 * U, cur.z)

\* findDryLandPath: the point returned
findDryLandPath(V, cur, target) ==
    LET tries == [n \in 1..48 |-> Polar(cur, ((n - 1) \div 6) * 45, 3 + ((n - 1) % 6), cur.y)]
        found == FirstPoint(tries, LAMBDA c : isDryLandPosition(V, c), 1)
        direction == getDirection3D(cur, target)
    IN IF found /= Null THEN found
       ELSE Pos(cur.x + Scale(direction.x, 3 * U, direction.len), cur.y + 2 * U,
                cur.z + Scale(direction.z, 3 * U, direction.len))

\* update3DKnowledgeMap with updateSpaceClassification
RECURSIVE Merge3D(_, _, _)
Merge3D(VS, blocks, i) ==
    IF i > Len(blocks) THEN VS
    ELSE LET b == blocks[i]
             a == analyze3DBlock(b.type)
         IN Merge3D([V |-> FunSet(VS.V, b.key, b.type),
                     S |-> IF a.isAir /\ ~a.isWater THEN SeqAdd(VS.S, b.key) ELSE SeqDel(VS.S, b.key)],
                    blocks, i + 1)

update3DKnowledgeMap(V, S, mem) == Merge3D([V |-> V, S |-> S], getMemoryBlocksArray(mem), 1)

\* recordPosition
recordPosition(log, p) ==
    IF Len(log) + 1 > positionLogSize THEN Tail(Append(log, p)) ELSE Append(log, p)

\* isReallyStuck: the mean of the last two movements is below 0.3
isReallyStuck(log) ==
    IF Len(log) < 3 THEN FALSE
    ELSE distance3D(log[Len(log) - 2], log[Len(log) - 1])
         + distance3D(log[Len(log) - 1], log[Len(log)]) < 2 * 30

\* executeEscapeManeuver: the explorer afterwards and the point returned
executeEscapeManeuver(N, V, cur) ==
    LET tries == [n \in 1..24 |-> Polar(cur, ((n - 1) \div 4) * 60, 2 + ((n - 1) % 4), cur.y + U)]
        found == FirstPoint(tries, LAMBDA c : isDryLandPosition(V, c), 1)
    IN IF found /= Null
       THEN [nav |-> [N EXCEPT !.plannedPath = <<>>, !.pathIndex = 0], step |-> found]
       ELSE [nav |-> N, step |-> Pos(cur.x, cur.y + 2 * U, cur.z)]

needsReplanning3D(N, V, time) ==
    IF time - N.lastReplanTime < replanInterval THEN FALSE
    ELSE IF Len(N.plannedPath) = 0 \/ N.pathIndex >= Len(N.plannedPath) THEN TRUE
    ELSE isWaterPosition(V, At(N.plannedPath, N.pathIndex))

\* replan3DPath, lines 1393-1402: the adjustment of a step that lies in water
RECURSIVE AdjustStep(_, _, _, _, _)
AdjustStep(V, cur, base, stepPos, attempts) ==
    IF isWaterPosition(V, stepPos) /\ attempts < 8
    THEN AdjustStep(V, cur, base, Polar(base, attempts * 45, 2, cur.y + U), attempts + 1)
    ELSE stepPos

replan3DPath(N, V, cur, time) ==
    LET direction == getDirection3D(cur, N.finalTarget)
        base(i) == Pos(cur.x + Scale(direction.x, 3 * i * U, direction.len), cur.y + 50,
                       cur.z + Scale(direction.z, 3 * i * U, direction.len))
    IN [N EXCEPT !.lastReplanTime = time,
                 !.plannedPath = <<cur>> \o [i \in 1..4 |-> AdjustStep(V, cur, base(i), base(i), 0)],
                 !.pathIndex = 1]

\* getNext3DStep: the explorer afterwards and the point returned
getNext3DStep(N, cur) ==
    IF Len(N.plannedPath) > 0 /\ N.pathIndex < Len(N.plannedPath)
    THEN IF SquaredDistance(cur, At(N.plannedPath, N.pathIndex)) < goalRadius3D * goalRadius3D
         THEN [nav |-> [N EXCEPT !.pathIndex = @ + 1],
               step |-> IF N.pathIndex + 1 < Len(N.plannedPath)
                        THEN At(N.plannedPath, N.pathIndex + 1) ELSE Null]
         ELSE [nav |-> N, step |-> At(N.plannedPath, N.pathIndex)]
    ELSE [nav |-> N, step |-> Null]

-----------------------------------------------------------------------------
(* Initial state: everything as the constructors leave it *)

\* Date.now() when the program starts (any value above maxAge behaves alike)
StartTime == 100 * 1000

\* a world: the block names of the floor and of the body level, by column
RowWorld(floor, body) ==
    [k \in WorldCells |->
        IF k[2] = 0 THEN (IF k[1] + 1 <= Len(floor) THEN floor[k[1] + 1] ELSE "stone")
        ELSE IF k[2] = 1 THEN (IF k[1] + 1 <= Len(body) THEN body[k[1] + 1] ELSE "air")
        ELSE "air"]

\* a block with nothing below it (column 1), a fence with a block on top of it
\* (column 2) and water (column 3)
FenceWorld == RowWorld(<<"stone", "air", "oak_fence", "water">>, <<"air", "stone", "stone", "air">>)

BotPositions == {CellCentre(x, 1, 0) : x \in 0..(WorldLen - 1)}

\* where the bot stands when the knowledge map is studied on its own: either end of the row
EndPositions == {CellCentre(0, 1, 0), CellCentre(WorldLen - 1, 1, 0)}

\* the changes the environment makes to the world in the model: a block is
\* placed or replaced in the floor of column 1
EditCells == {<<1, 0, 0>>}
EditTypes == {"stone", "oak_fence"}

\* BotController as its constructor leaves it (botController.js, lines 4-34).
\* movementState is the set of controls that are held down; memoryBlocks is
\* the Map as the sequence of its values in insertion order.  stuckCounter,
\* plannedPath and actualPath are written and never read for a decision.
BotController ==
    [isNavigating |-> FALSE, target |-> Null, currentTarget |-> Null,
     currentPath |-> <<>>, currentWaypointIndex |-> 0, movementState |-> {},
     lastPathUpdate |-> 0, memoryBlocks |-> <<>>, lastMemoryUpdate |-> 0]

\* the result of an exploreToTarget call that has not returned yet
NoAnswer == [pending |-> TRUE]

\* the summary of the tracked positions: how many there are (2 stands for two
\* or more), how many of the latest lie within 0.1 of one another (up to
\* Window), and whether there are two or more with every two consecutive
\* ones more than the threshold of updatePositionTracking apart
NoSamples == [count |-> 0, still |-> 0, moving |-> FALSE]

\* the state in which the perception memory is mem and the knowledge map is K,
\* everything else as constructed
InitGiven(v, w, mem, K) ==
    /\ variant = v
    /\ now = StartTime
    /\ botPos = CellCentre(0, 1, 0)
    /\ botYaw = 0
    /\ world = w
    /\ worldEdits = 0
    /\ visibleBlocks = <<>>
    /\ memoryMap = mem
    /\ lastUpdateTime = 0
    /\ lastBotPosition = Null
    /\ lastBotYaw = NoYaw
    /\ passes = <<>>
    /\ passLog = Null
    /\ finalTarget = Null
    /\ plannedPath = <<>>
    /\ pathIndex = 0
    /\ stuckCounter = 0
    /\ lastReplanTime = 0
    /\ knowledgeMap = K.knowledgeMap
    /\ obstacleMap = K.obstacleMap
    /\ safeAreas = K.safeAreas
    /\ exploredBoundary = K.exploredBoundary
    /\ lastPosition = Null
    /\ voxelMap = EmptyFun
    /\ safeAirSpaces = <<>>
    /\ lastPositionLog = <<>>
    /\ purged = Null
    /\ call = Null
    /\ samples = NoSamples
    /\ astar = Null
    /\ suspended = <<>>
    /\ blockCache = <<>>
    /\ probe = Null
    /\ controller = BotController
    /\ awaiting = <<>>
    /\ timers = <<>>
    /\ firstInsertion = EmptyFun

InitWith(v, w) == InitGiven(v, w, <<>>, EmptyKnowledge)

-----------------------------------------------------------------------------
(* The environment: the bot moves, the world changes, time passes *)

BotMove(p) ==
    /\ p /= botPos
    /\ botPos' = p
    /\ UNCHANGED <<variant, now, botYaw, world, worldEdits>>
    /\ UNCHANGED <<percVars, navVars, nav2Vars, nav3Vars, purged, samples, runVars>>
    /\ call' = Null

WorldEdit(k, t) ==
    /\ worldEdits < MaxWorldEdits
    /\ world[k] /= t
    /\ world' = [world EXCEPT ![k] = t]
    /\ worldEdits' = worldEdits + 1
    /\ UNCHANGED <<variant, now, botPos, botYaw>>
    /\ UNCHANGED <<percVars, navVars, nav2Vars, nav3Vars, purged, samples, runVars>>
    /\ call' = Null

\* d milliseconds pass; the clock stays within the horizon
Tick(d, horizon) ==
    /\ now + d <= StartTime + horizon
    /\ now' = now + d
    /\ UNCHANGED <<variant, botPos, botYaw, world, worldEdits>>
    /\ UNCHANGED <<percVars, navVars, nav2Vars, nav3Vars, purged, samples, runVars>>
    /\ call' = Null

-----------------------------------------------------------------------------
(* updatePerceptionAsync run to completion with no other call in between *)

PerceptionPass ==
    /\ PerceptionDue
    /\ passes = <<>>
    /\ LET cands == generateCandidateBlocks(botPos)
           vis == ScanBatch(world, <<>>, EyeOf(botPos), cands, 1, Len(cands))
       IN /\ visibleBlocks' = vis
          /\ memoryMap' = MemoryMerge(memoryMap, vis, 1)
          /\ passLog' = [merged |-> vis, own |-> vis]
    /\ lastUpdateTime' = now
    /\ lastBotPosition' = botPos
    /\ lastBotYaw' = botYaw
    /\ UNCHANGED passes
    /\ UNCHANGED <<envVars, navVars, nav2Vars, nav3Vars, purged, samples, runVars>>
    /\ call' = Null

-----------------------------------------------------------------------------
(* updatePerceptionAsync step by step.  performLineOfSightScanAsync awaits a  *)
(* zero-delay timer after every batch, the last one included; timers with    *)
(* the same delay fire in the order they were set, so the suspended passes   *)
(* form a queue.  A call of updatePerceptionAsync (1 s timer of main.js, the *)
(* 500 ms broadcast of the visualization server, a setViewDistance message)  *)
(* may run between any two resumptions.                                      *)

KeysOf(m) == {m[i].key : i \in 1..Len(m)}

\* lines 454-461, run when a pass resumes after its last batch
FinishPass(p) ==
    /\ memoryMap' = MemoryMerge(memoryMap, visibleBlocks, 1)
    /\ passLog' = [merged |-> KeysOf(visibleBlocks), own |-> KeysOf(p.found)]
    /\ UNCHANGED visibleBlocks

\* updatePerceptionAsync up to the first yield of the scan
UpdatePerceptionStart ==
    /\ PerceptionDue
    /\ Len(passes) < MaxPasses
    /\ lastUpdateTime' = now
    /\ lastBotPosition' = botPos
    /\ lastBotYaw' = botYaw
    /\ LET cands == generateCandidateBlocks(botPos)
           eye == EyeOf(botPos)
           p == [cands |-> cands, eye |-> eye, next |-> BatchSize + 1,
                 found |-> ScanBatch(world, <<>>, eye, cands, 1, BatchSize)]
       IN IF cands = <<>>
          THEN /\ visibleBlocks' = <<>>
               /\ memoryMap' = memoryMap
               /\ passLog' = [merged |-> {}, own |-> {}]
               /\ UNCHANGED passes
          ELSE /\ visibleBlocks' = ScanBatch(world, <<>>, eye, cands, 1, BatchSize)
               /\ passes' = Append(passes, p)
               /\ UNCHANGED <<memoryMap, passLog>>
    /\ UNCHANGED <<envVars, navVars, nav2Vars, nav3Vars, histVars, runVars>>

\* the oldest suspended pass resumes: its next batch, or the merge after the last one
ScanResume ==
    /\ passes /= <<>>
    /\ LET p == Head(passes)
           to == p.next + BatchSize - 1
       IN IF p.next <= Len(p.cands)
          THEN /\ visibleBlocks' = ScanBatch(world, visibleBlocks, p.eye, p.cands, p.next, to)
               /\ passes' = Append(Tail(passes),
                       [p EXCEPT !.next = to + 1,
                                 !.found = ScanBatch(world, p.found, p.eye, p.cands, p.next, to)])
               /\ UNCHANGED <<memoryMap, passLog>>
          ELSE /\ FinishPass(p)
               /\ passes' = Tail(passes)
    /\ UNCHANGED <<lastUpdateTime, lastBotPosition, lastBotYaw>>
    /\ UNCHANGED <<envVars, navVars, nav2Vars, nav3Vars, histVars, runVars>>

\* the bot turns by 0.2 rad
BotTurn ==
    /\ botYaw' = IF botYaw = 0 THEN 20 ELSE 0
    /\ UNCHANGED <<variant, now, botPos, world, worldEdits>>
    /\ UNCHANGED <<percVars, navVars, nav2Vars, nav3Vars, histVars, runVars>>

MaxScanTicks == 1

\* a remembered block is replaced by another one
PercEditCells == {<<1, 1, 0>>}

InitPerc == InitWith("2D", FenceWorld)

NextPerc ==
    \/ \E p \in EndPositions : BotMove(p)
    \/ BotTurn
    \/ \E k \in PercEditCells, t \in EditTypes : WorldEdit(k, t)
    \/ Tick(updateInterval, MaxScanTicks * updateInterval)
    \/ UpdatePerceptionStart
    \/ ScanResume

SpecPerc == InitPerc /\ [][NextPerc]_vars

\* C7: a memory record keeps its key and its block type for ever; the memory
\* only grows at its end.
C7_MemoryInsertOnce ==
    [][/\ Len(memoryMap') >= Len(memoryMap)
       /\ \A i \in 1..Len(memoryMap) :
             /\ memoryMap'[i].key = memoryMap[i].key
             /\ memoryMap'[i].type = memoryMap[i].type]_vars

\* a finished scan has seen another block type at a remembered key
C7_Witness ==
    /\ passes = <<>>
    /\ passLog /= Null
    /\ \E i \in 1..Len(memoryMap), j \in 1..Len(visibleBlocks) :
           /\ visibleBlocks[j].key = memoryMap[i].key
           /\ visibleBlocks[j].type /= memoryMap[i].type

\* C8: what a finishing pass merges into the memory is the visibility set of
\* that pass, whole and nothing else.
C8_MergeIsOnePass == passLog /= Null => passLog.merged = passLog.own

-----------------------------------------------------------------------------
(* The scan filter: whole perception passes over rows that hold stairs,      *)
(* short grass and sand                                                      *)

MaxFilterTicks == 2

\* stairs and sand in the floor, short grass and stairs at the body level
StairsWorld == RowWorld(<<"stone", "oak_stairs", "sand", "stone">>,
                        <<"air", "air", "short_grass", "oak_stairs">>)

\* short grass in the floor, sand and a poppy at the body level
MeadowWorld == RowWorld(<<"short_grass", "stone", "grass_block", "stone">>,
                        <<"air", "sand", "poppy", "air">>)

InitFilter == InitWith("2D", StairsWorld) \/ InitWith("2D", MeadowWorld)

NextFilter ==
    \/ \E p \in BotPositions : BotMove(p)
    \/ Tick(updateInterval, MaxFilterTicks * updateInterval)
    \/ PerceptionPass

SpecFilter == InitFilter /\ [][NextFilter]_vars

\* the block at the cell is there, is not air and is not short grass
NotFilteredOut(w, cell) == blockAt(w, cell) \notin {NoBlock, Thrown, "air", "short_grass"}

\* C35: the scan skips a candidate only if its block is absent, is air or is
\* short grass: every other candidate of the last pass that passes the
\* visibility test is in visibleBlocks and in memoryMap; and no record of
\* memoryMap has the type air or short grass.
C35_FilterSkipsOnlyAirAndGrass ==
    /\ (passLog /= Null /\ lastBotPosition /= Null) =>
          \A cell \in SeqSet(generateCandidateBlocks(lastBotPosition)) :
              (NotFilteredOut(world, cell)
                  /\ isBlockVisibleRelaxed(world, EyeOf(lastBotPosition), cell)) =>
                  MapHas(visibleBlocks, cell) /\ MapHas(memoryMap, cell)
    /\ \A i \in 1..Len(memoryMap) : memoryMap[i].type \notin {"air", "short_grass"}

-----------------------------------------------------------------------------
(* Line of sight: whole perception passes over rows with blocks at the body  *)
(* level, between the eye and the floor further on                           *)

MaxSightTicks == 2

\* a stone floor with one block, and with two blocks, standing on it
PillarWorld == RowWorld(<<"stone", "stone", "stone", "stone">>, <<"air", "stone", "air", "air">>)
WallWorld == RowWorld(<<"stone", "stone", "stone", "stone">>, <<"air", "stone", "stone", "air">>)

InitSight == InitWith("2D", PillarWorld) \/ InitWith("2D", WallWorld)

NextSight ==
    \/ \E p \in BotPositions : BotMove(p)
    \/ Tick(updateInterval, MaxSightTicks * updateInterval)
    \/ PerceptionPass

SpecSight == InitSight /\ [][NextSight]_vars

\* the centre of a cell
CentreOf(cell) == Pos(cell[1] * U + 50, cell[2] * U + 50, cell[3] * U + 50)

\* the sample points of the ray from eye to the centre of target: one every
\* lineOfSightStep, as long as the distance before the step is below the
\* whole distance less 1
RaySamples(eye, target) ==
    LET total == calculateDistance(CentreOf(target), eye)
        last == CHOOSE m \in 0..(total \div lineOfSightStep + 1) :
                    /\ m = 0 \/ lineOfSightStep * (m - 1) < total - U
                    /\ ~(lineOfSightStep * m < total - U)
    IN [m \in 1..last |->
           Pos(eye.x + ((CentreOf(target).x - eye.x) * lineOfSightStep * m) \div total,
               eye.y + ((CentreOf(target).y - eye.y) * lineOfSightStep * m) \div total,
               eye.z + ((CentreOf(target).z - eye.z) * lineOfSightStep * m) \div total)]

\* the distinct obstructing blocks on the sampled ray, between the first
\* block of distance and the target cell
ObstructingCells(w, eye, target) ==
    LET points == RaySamples(eye, target)
    IN {CellOf(points[m]) : m \in {m \in 1..Len(points) :
            /\ lineOfSightStep * m >= U
            /\ CellOf(points[m]) /= target
            /\ isBlockObstructingRelaxed(lookupBlock(w, CellOf(points[m])), points[m],
                                         CellOf(points[m]))}}

\* the scan looks at the block of the cell at all
Scanned(w, cell) ==
    /\ lookupBlock(w, cell) /= NoBlock
    /\ ~Includes(lookupBlock(w, cell), "air")
    /\ ~Includes(lookupBlock(w, cell), "short_grass")

\* C36: a scanned block within 2.0 of the eye is visible; one farther away is
\* visible whenever at most 2 distinct obstructing blocks lie on the sampled
\* ray, and is blocked only when the ray crosses more than 2 of them.
C36_TwoObstructionsTolerated ==
    (passLog /= Null /\ lastBotPosition /= Null) =>
        \A cell \in SeqSet(generateCandidateBlocks(lastBotPosition)) :
            Scanned(world, cell) =>
                (MapHas(visibleBlocks, cell) <=>
                    \/ SquaredDistance(CentreOf(cell), EyeOf(lastBotPosition)) <= (2 * U) * (2 * U)
                    \/ Cardinality(ObstructingCells(world, EyeOf(lastBotPosition), cell)) <= 2)

-----------------------------------------------------------------------------
(* adjustScanParameters on its own: the view distance is set again and again *)
(* (the setViewDistance message of the visualization server)                 *)

MaxRadius == 200

\* the greatest radius adjustScanParameters allows, and the constructor's default
maxAllowedRadius == 128
defaultMaxDistance == 256

\* the two fields the constructor sets from maxDistance
ScanParameters == [maxDistance |-> defaultMaxDistance, scanRadius |-> defaultMaxDistance]

\* adjustScanParameters({scanRadius: r}): lines 387-391, then the
\* Object.assign of line 392, which copies newParams.scanRadius as given
adjustScanParameters(P, r) ==
    LET clamped == [P EXCEPT !.maxDistance = Min(r, maxAllowedRadius),
                             !.scanRadius = Min(r, maxAllowedRadius)]
    IN [clamped EXCEPT !.scanRadius = r]

Adjusted == probe /= Null /\ probe.op = "adjust"

AdjustScanParameters(r) ==
    /\ LET P == adjustScanParameters(IF Adjusted THEN probe.params ELSE ScanParameters, r)
       IN probe' = [op |-> "adjust", given |-> r, params |-> P]
    /\ UNCHANGED <<envVars, percVars, navVars, nav2Vars, nav3Vars, histVars, astar, suspended, blockCache, ctlVars>>

InitAdjust == InitWith("2D", FenceWorld)

NextAdjust == \E r \in 1..MaxRadius : AdjustScanParameters(r)

SpecAdjust == InitAdjust /\ [][NextAdjust]_vars

\* C37: after adjustScanParameters({scanRadius: r}) visionConfig.scanRadius
\* is min(r, 128) and equals maxDistance, so the radius of the next scan is
\* at most 128.
C37_ScanRadiusClamped ==
    Adjusted =>
        /\ probe.params.scanRadius = Min(probe.given, maxAllowedRadius)
        /\ probe.params.scanRadius = probe.params.maxDistance
        /\ probe.params.scanRadius <= maxAllowedRadius

-----------------------------------------------------------------------------
(* knowledgeBasedAStar on its own, one loop iteration per step, over          *)
(* knowledge maps built by updateKnowledgeMap from given memory lists.        *)

MemoryBlock(key, t) == [key |-> key, type |-> t, distance |-> 0]

\* fence posts in the floor all around the cell (0, 0): the bot is fenced in
RingMemory ==
    LET ring == getKnowledgeBasedNeighbors(<<0, 0, 0>>)
    IN [i \in 1..8 |-> MemoryBlock(ring[i], "oak_fence")]

\* a stone floor along the row with a fence post in column 2
RowMemory ==
    << MemoryBlock(<<0, 0, 0>>, "stone"), MemoryBlock(<<1, 0, 0>>, "stone"),
       MemoryBlock(<<2, 0, 0>>, "oak_fence"), MemoryBlock(<<3, 0, 0>>, "stone") >>

AStarMemories == {<<>>, RingMemory, RowMemory}

\* goals of the searches: next to the start, behind the fence post, out of reach
AStarGoals == {CellCentre(1, 1, 0), CellCentre(3, 1, 0), CellCentre(12, 1, 0)}

InitAStar ==
    \E mem \in AStarMemories :
        InitGiven("2D", FenceWorld, mem, updateKnowledgeMap(EmptyKnowledge, mem, StartTime))

AStarStart(goal) ==
    /\ IF astar = Null THEN TRUE ELSE astar.done
    /\ astar' = AStarInit(botPos, goal)
    /\ UNCHANGED <<envVars, percVars, navVars, nav2Vars, nav3Vars, histVars, suspended, blockCache, probe, ctlVars>>

AStarIterate ==
    /\ astar /= Null
    /\ ~astar.done
    /\ astar' = AStarStep(Knowledge, Floor(botPos.y), astar)
    /\ UNCHANGED <<envVars, percVars, navVars, nav2Vars, nav3Vars, histVars, suspended, blockCache, probe, ctlVars>>

NextAStar ==
    \/ \E goal \in AStarGoals : AStarStart(goal)
    \/ AStarIterate

SpecAStar == InitAStar /\ [][NextAStar]_vars

\* C9: a search never runs more than maxIterations iterations, and a search
\* that ends without having popped a node within 1.5 cells of the goal
\* returns null.
C9_AStarBoundedNullOnFailure ==
    astar /= Null =>
        /\ astar.iterations <= maxIterations
        /\ (astar.done /\ ~NearGoal(astar.last, astar.goal)) => astar.result = Null
        /\ (astar.done /\ astar.result /= Null) => NearGoal(astar.last, astar.goal)

\* in the empty knowledge map the cap is used up and the search returns null
C9_Witness ==
    /\ astar /= Null
    /\ knowledgeMap = EmptyFun
    /\ astar.done /\ astar.iterations = maxIterations /\ astar.openSet /= <<>>
    /\ astar.result = Null

\* the grid cell of a waypoint, the level left out
CellXZ(p) == <<Floor(p.x), Floor(p.z)>>

\* two grid cells are the same or neighbours in one of the eight directions
SameOrAdjacent(a, b) == Abs(a[1] - b[1]) <= 1 /\ Abs(a[2] - b[2]) <= 1

\* C29: the waypoint sequence returned by a successful knowledgeBasedAStar
\* begins at the start cell, ends at the goal cell, and every two consecutive
\* waypoints are the same or 8-neighbour-adjacent grid cells, so that a cursor
\* of 1 skips only the start cell.
C29_PlanIsParentChain ==
    (astar /= Null /\ astar.done /\ astar.result /= Null) =>
        LET path == astar.result.array
        IN /\ Len(path) >= 1
           /\ CellXZ(path[1]) = CellXZ(botPos)
           /\ CellXZ(path[Len(path)]) = <<astar.goal[1], astar.goal[3]>>
           /\ \A i \in 1..(Len(path) - 1) : SameOrAdjacent(CellXZ(path[i]), CellXZ(path[i + 1]))

-----------------------------------------------------------------------------
(* exploreToTarget.  Every await in it is on a promise that is already       *)
(* resolved, so a call runs to its return without any timer or event in      *)
(* between.                                                                  *)

\* the detection window of the first variant: maxStuckCount comparisons
Window == maxStuckCount + 1

\* the summary after position cur is tracked; last is the position tracked before
Sampled(sm, last, cur) ==
    IF sm.count = 0 \/ last = Null THEN [count |-> 1, still |-> 1, moving |-> FALSE]
    ELSE [count |-> 2,
          still |-> IF Dist2Sq(cur, last) <= 10 * 10 THEN Min(sm.still + 1, Window) ELSE 1,
          moving |-> Dist2Sq(cur, last) > 50 * 50 /\ (sm.count = 1 \/ sm.moving)]

\* what a call leaves for inspection: its target, whether the target was new,
\* whether the target, the path and the cursor were as a new target sets them
\* when the planning of the call began, the waypoint returned, whether the
\* stuck test of the variant held for the call, whether the call went on
\* to replanPath or executeEscapeManeuver, whether it ran replanPath or
\* replan3DPath, the time since the replan before, and the path and the
\* cursor when the planning of the call began
CallRecord(target, isNew, N, ret, stuck, handled, replanned) ==
    [target |-> target, newTarget |-> isNew,
     fresh |-> (N.finalTarget = target /\ N.plannedPath = <<>> /\ N.pathIndex = 0),
     ret |-> ret, stuck |-> stuck, handled |-> handled,
     replanned |-> replanned, gap |-> now - lastReplanTime,
     path |-> N.plannedPath, index |-> N.pathIndex]

SetNav(N) ==
    /\ finalTarget' = N.finalTarget
    /\ plannedPath' = N.plannedPath
    /\ pathIndex' = N.pathIndex
    /\ stuckCounter' = N.stuckCounter
    /\ lastReplanTime' = N.lastReplanTime
    /\ lastPosition' = N.lastPosition

\* how far the model lets stuckCounter run past maxStuckCount
MaxOverrun == 0

\* lines 52-57
SetTarget(N, target) == [N EXCEPT !.finalTarget = target, !.plannedPath = <<>>, !.pathIndex = 0]

\* exploreToTarget of the first variant (lines 46-73)
Explore2D(target) ==
    /\ variant = "2D"
    /\ stuckCounter <= maxStuckCount + MaxOverrun
    /\ \E cur \in {botPos}, by \in {Floor(botPos.y)},
          K \in {updateKnowledgeMap(Knowledge, memoryMap, now)} :
       \E isNew \in {IF finalTarget = Null THEN TRUE
                     ELSE Dist2Sq(target, finalTarget) > (2 * U) * (2 * U)} :
       \E N1 \in {IF isNew THEN SetTarget(Nav, target) ELSE Nav} :
       \E replan \in {needsReplanning(N1, K, by, cur, now)} :
       \E N2 \in {IF replan THEN replanPath(N1, K, by, cur, now) ELSE N1} :
       \E r \in {getNextStep(N2, K, by, cur)} :
          /\ knowledgeMap' = K.knowledgeMap
          /\ obstacleMap' = K.obstacleMap
          /\ safeAreas' = K.safeAreas
          /\ exploredBoundary' = K.exploredBoundary
          /\ purged' = PurgeRecord(Knowledge, now)
          /\ IF r.step /= Null
             THEN /\ SetNav(updatePositionTracking(r.nav, cur))
                  /\ samples' = IF replan /\ isStuck(N1) THEN Sampled(NoSamples, lastPosition, cur)
                                ELSE Sampled(samples, lastPosition, cur)
                  /\ call' = CallRecord(target, isNew, N1, r.step, isStuck(Nav), replan, replan)
             ELSE /\ SetNav(r.nav)
                  /\ samples' = samples
                  /\ \E w \in exploratoryMovement(K, by, cur) :
                        call' = CallRecord(target, isNew, N1, w, isStuck(Nav), replan, replan)
    /\ UNCHANGED <<envVars, percVars, nav3Vars, runVars>>

\* exploreToTarget of the second variant (lines 983-1038)
Explore3D(target) ==
    /\ variant = "3D"
    /\ LET cur == botPos
           isNew == IF finalTarget = Null THEN TRUE
                    ELSE SquaredDistance(target, finalTarget) > (3 * U) * (3 * U)
           log == recordPosition(lastPositionLog, cur)
           VS == update3DKnowledgeMap(voxelMap, safeAirSpaces, memoryMap)
           N1 == IF isNew THEN SetTarget(Nav, target) ELSE Nav
           replan == needsReplanning3D(N1, VS.V, now)
           N2 == IF replan THEN replan3DPath(N1, VS.V, cur, now) ELSE N1
           r == getNext3DStep(N2, cur)
           esc == executeEscapeManeuver(N1, VS.V, cur)
       IN IF isCurrentlyInWater(voxelMap, cur)
          THEN /\ call' = CallRecord(target, isNew, Nav,
                                     emergencyExitWater(voxelMap, safeAirSpaces, cur),
                                     isReallyStuck(log), FALSE, FALSE)
               /\ UNCHANGED <<navVars, nav3Vars, lastPosition>>
          ELSE /\ lastPositionLog' = log
               /\ voxelMap' = VS.V
               /\ safeAirSpaces' = VS.S
               /\ IF isReallyStuck(log)
                  THEN /\ SetNav(esc.nav)
                       /\ call' = CallRecord(target, isNew, N1, esc.step, TRUE, TRUE, FALSE)
                  ELSE /\ SetNav(r.nav)
                       /\ call' = CallRecord(target, isNew, N1,
                                             IF r.step /= Null /\ ~isWaterPosition(VS.V, r.step)
                                             THEN r.step
                                             ELSE findDryLandPath(VS.V, cur, target),
                                             FALSE, replan, replan)
    /\ UNCHANGED <<knowledgeMap, obstacleMap, safeAreas, exploredBoundary, purged, samples>>
    /\ UNCHANGED <<envVars, percVars, runVars>>

\* the column the bot walks to
WalkCol == WorldLen - 3

\* a stone floor with fence posts in the two columns after WalkCol
FencePostWorld == RowWorld([i \in 1..WorldLen |-> IF i \in {WalkCol + 2, WalkCol + 3} THEN "oak_fence"
                                                  ELSE "stone"],
                           [i \in 1..WorldLen |-> "air"])

\* a stone floor with water in column WalkCol
PondWorld == RowWorld([i \in 1..WorldLen |-> IF i = WalkCol + 1 THEN "water" ELSE "stone"],
                      [i \in 1..WorldLen |-> "air"])

\* targets: column WalkCol, and a place far beyond the row
NavTargets == {CellCentre(WalkCol, 1, 0), CellCentre(WorldLen + 5, 1, 0)}

MaxNavTicks == 1

InitNav == InitWith("2D", FencePostWorld) \/ InitWith("3D", PondWorld)

\* the bot walks from column 0 to column WalkCol
NavPositions == {CellCentre(WalkCol, 1, 0)}

NextNav ==
    \/ \E p \in NavPositions : BotMove(p)
    \/ Tick(replanInterval, MaxNavTicks * replanInterval)
    \/ PerceptionPass
    \/ \E target \in NavTargets : Explore2D(target)
    \/ \E target \in NavTargets : Explore3D(target)

SpecNav == InitNav /\ [][NextNav]_vars

\* C2: the cursor of the planned path stays between 0 and the length of the
\* path, in both variants, whatever sequence of exploreToTarget calls is made.
C2_CursorInRange == 0 <= pathIndex /\ pathIndex <= Len(plannedPath)

\* a call has moved the cursor past the last waypoint of a planned path
C2_Witness == call /= Null /\ Len(plannedPath) > 0 /\ pathIndex = Len(plannedPath)

\* C3: a call whose target is new (no stored target, or farther from it than
\* the epsilon) stores the target, empties the path and resets the cursor
\* before any planning of that call, in both variants and in every state of
\* the agent.
C3_NewTargetResets == call /= Null /\ call.newTarget => call.fresh

\* C4: the body cell of the waypoint that exploreToTarget returns is not in
\* the obstacle set as it is at that call.
C4_WaypointNotObstacle ==
    call /= Null /\ variant = "2D" => getPositionKey(call.ret) \notin obstacleMap

\* C10: when all samples of a full detection window are within 0.1 of one
\* another the navigator reports stuck at the end of the window, and when
\* every two consecutive samples are more than the movement threshold apart
\* it does not.
C10_StuckDetection ==
    /\ variant = "2D" /\ samples.still >= Window => isStuck(Nav)
    /\ variant = "2D" /\ samples.moving => ~isStuck(Nav)
    /\ variant = "3D" /\ Len(lastPositionLog) >= 3
          /\ (\A i, j \in (Len(lastPositionLog) - 2)..Len(lastPositionLog) :
                 SquaredDistance(lastPositionLog[i], lastPositionLog[j]) <= 10 * 10)
       => isReallyStuck(lastPositionLog)
    /\ variant = "3D" /\ Len(lastPositionLog) >= 3
          /\ (\A i \in (Len(lastPositionLog) - 2)..(Len(lastPositionLog) - 1) :
                 SquaredDistance(lastPositionLog[i], lastPositionLog[i + 1]) > 30 * 30)
       => ~isReallyStuck(lastPositionLog)

\* C11: a call made while the stuck test of its variant holds goes on to the
\* stuck handling (replanPath, or executeEscapeManeuver in the second
\* variant), also when less than replanInterval has passed since the last
\* replan.
C11_StuckNotSuppressed == call /= Null /\ call.stuck => call.handled

-----------------------------------------------------------------------------
(* exploreToTarget as the event loop runs it.  The function is async: it     *)
(* runs from its call to its first await within the callback that called    *)
(* it, and the rest runs as promise jobs after that callback has returned.   *)
(* The promise jobs of a turn all run before the next timer or socket        *)
(* callback; a second call made by the same callback (two chat lines or two  *)
(* socket frames delivered by one read) starts before the first continues.   *)

\* calls one event-loop turn may start
MaxSameTurn == 2

\* replanPath, lines 160-165: what it writes before its first await
replanPathBegin(N, time) ==
    [N EXCEPT !.lastReplanTime = time, !.plannedPath = <<>>, !.pathIndex = 0, !.stuckCounter = 0]

\* replanPath, lines 173-180: what it writes after the await of line 171
replanPathResume(N, K, by, cur, intermediateTarget, path) ==
    IF path /= Null /\ Len(path.array) > 1
    THEN [N EXCEPT !.plannedPath = optimizePath(K, by, path.array), !.pathIndex = 1]
    ELSE LET explored == generateExploredPath(K, by, cur, intermediateTarget)
         IN [N EXCEPT !.plannedPath = explored, !.pathIndex = Min(1, Len(explored) - 1)]

\* exploreToTarget of the first variant from its call to its first await:
\* line 61 (inside replanPath, line 171) when it replans, line 64 otherwise
ExploreBegin(target) ==
    /\ variant = "2D"
    /\ Len(suspended) < MaxSameTurn
    /\ stuckCounter <= maxStuckCount + MaxOverrun
    /\ \E cur \in {botPos}, by \in {Floor(botPos.y)},
          K \in {updateKnowledgeMap(Knowledge, memoryMap, now)} :
       \E isNew \in {IF finalTarget = Null THEN TRUE
                     ELSE Dist2Sq(target, finalTarget) > (2 * U) * (2 * U)} :
       \E N1 \in {IF isNew THEN SetTarget(Nav, target) ELSE Nav} :
       \E replan \in {needsReplanning(N1, K, by, cur, now)} :
       \E it \in {IF replan THEN findBestIntermediateTarget(K, by, cur, N1.finalTarget) ELSE Null} :
       \E path \in {IF replan THEN knowledgeBasedAStar(K, by, cur, it) ELSE Null} :
       \E r \in {IF replan THEN [nav |-> replanPathBegin(N1, now), step |-> Null]
                 ELSE getNextStep(N1, K, by, cur)} :
          /\ knowledgeMap' = K.knowledgeMap
          /\ obstacleMap' = K.obstacleMap
          /\ safeAreas' = K.safeAreas
          /\ exploredBoundary' = K.exploredBoundary
          /\ SetNav(r.nav)
          /\ suspended' = Append(suspended,
                 [target |-> target, cur |-> cur, by |-> by, replan |-> replan,
                  intermediateTarget |-> it, path |-> path, step |-> r.step,
                  left |-> <<K.knowledgeMap, r.nav.finalTarget, r.nav.plannedPath, r.nav.pathIndex>>])
    /\ call' = Null
    /\ UNCHANGED <<envVars, percVars, nav3Vars, purged, samples, astar, blockCache, probe, ctlVars>>

\* the rest of the oldest waiting call: lines 173-180 and 64-72 when it
\* replans, lines 65-72 otherwise
ExploreResume ==
    /\ suspended /= <<>>
    /\ \E c \in {Head(suspended)} :
       \E N2 \in {IF c.replan
                  THEN replanPathResume(Nav, Knowledge, c.by, c.cur, c.intermediateTarget, c.path)
                  ELSE Nav} :
       \E r \in {IF c.replan THEN getNextStep(N2, Knowledge, c.by, c.cur)
                 ELSE [nav |-> Nav, step |-> c.step]} :
          SetNav(IF r.step /= Null THEN updatePositionTracking(r.nav, c.cur) ELSE r.nav)
    /\ suspended' = Tail(suspended)
    /\ call' = Null
    /\ UNCHANGED <<knowledgeMap, obstacleMap, safeAreas, exploredBoundary>>
    /\ UNCHANGED <<envVars, percVars, nav3Vars, purged, samples, astar, blockCache, probe, ctlVars>>

\* a timer or socket callback runs only when no promise job is waiting
TurnBotMove(p) == suspended = <<>> /\ BotMove(p)
TurnTick == suspended = <<>> /\ Tick(replanInterval, MaxNavTicks * replanInterval)
TurnPerceptionPass == suspended = <<>> /\ PerceptionPass

InitTurn == InitWith("2D", FencePostWorld)

NextTurn ==
    \/ \E p \in NavPositions : TurnBotMove(p)
    \/ TurnTick
    \/ TurnPerceptionPass
    \/ \E target \in NavTargets : ExploreBegin(target)
    \/ ExploreResume

SpecTurn == InitTurn /\ [][NextTurn]_vars

\* C13: the updates of one exploreToTarget call to knowledgeMap, finalTarget,
\* plannedPath and pathIndex are complete before those of another call
\* begin: while a call waits for its continuation these fields stay as the
\* call left them.
C13_NoInterleavedUpdates ==
    \A i \in 1..Len(suspended) :
        suspended[i].left = <<knowledgeMap, finalTarget, plannedPath, pathIndex>>

-----------------------------------------------------------------------------
(* The entry points that start a navigation: the !goto chat command          *)
(* (main.js), the !moveTo(...) command (commands.js) and the 'navigate'      *)
(* command of the visualization socket.  A JavaScript number is a record:    *)
(* finite with its value, or NaN, Infinity, -Infinity; a property that is   *)
(* absent reads as undefined.  What exploreToTarget does once it is called  *)
(* is Explore2D / Explore3D; here a handler is followed up to that call.    *)

Finite(n) == [kind |-> "finite", v |-> n]
NaN == [kind |-> "NaN", v |-> 0]
Infinity == [kind |-> "Infinity", v |-> 0]
NegInfinity == [kind |-> "-Infinity", v |-> 0]
Undefined == [kind |-> "undefined", v |-> 0]

\* the words a chat message may carry where a coordinate is expected
CoordTokens == {"7", "-3", "abc", "Infinity", "-Infinity", "1e999"}

\* parseFloat
parseFloat(token) ==
    CASE token = "7"         -> Finite(7)
      [] token = "-3"        -> Finite(0 - 3)
      [] token = "Infinity"  -> Infinity
      [] token = "-Infinity" -> NegInfinity
      [] token = "1e999"     -> Infinity
      [] OTHER               -> NaN

\* the global isNaN
isNaN(value) == value.kind \in {"NaN", "undefined"}

\* Number.isFinite
isFiniteNumber(value) == value.kind = "finite"

\* the words after the command: two or three of them
TokenLists == UNION {[1..n -> CoordTokens] : n \in 2..3}

\* what JSON.parse can give for a coordinate of data.target
JsonCoords == {Finite(7), Infinity, NegInfinity, Undefined}

Handed(entry, target, reached) ==
    [op |-> "entry", entry |-> entry, target |-> target, reached |-> reached]

\* main.js lines 66-81: "!goto a b c"
ChatGoto(coords) ==
    /\ LET x == parseFloat(coords[1])
           y == parseFloat(coords[2])
           z == IF Len(coords) = 3 THEN parseFloat(coords[3]) ELSE Undefined
       IN probe' = Handed("goto", <<x, y, z>>,
                          Len(coords) = 3 /\ ~isNaN(x) /\ ~isNaN(y) /\ ~isNaN(z))
    /\ UNCHANGED <<envVars, percVars, navVars, nav2Vars, nav3Vars, histVars, astar, suspended, blockCache, ctlVars>>

\* commands.js lines 55-73: "!moveTo(a,b,c)" while not flying; BotController
\* has no moveTo method, so the call of line 68 throws before any navigation
ChatMoveTo(args) ==
    /\ LET x == parseFloat(args[1])
           y == parseFloat(args[2])
           z == IF Len(args) = 3 THEN parseFloat(args[3]) ELSE NaN
       IN probe' = Handed("moveTo", <<x, y, z>>, FALSE)
    /\ UNCHANGED <<envVars, percVars, navVars, nav2Vars, nav3Vars, histVars, astar, suspended, blockCache, ctlVars>>

\* visualizationServer.js lines 114-121 and botController.js lines 162-175:
\* data.target is handed to navigateTo whenever it is an object
VizNavigate(target) ==
    /\ probe' = Handed("navigate", target, TRUE)
    /\ UNCHANGED <<envVars, percVars, navVars, nav2Vars, nav3Vars, histVars, astar, suspended, blockCache, ctlVars>>

InitEntry == InitWith("2D", FencePostWorld)

NextEntry ==
    \/ \E coords \in TokenLists : ChatGoto(coords)
    \/ \E args \in TokenLists : ChatMoveTo(args)
    \/ \E x \in JsonCoords, y \in JsonCoords, z \in JsonCoords : VizNavigate(<<x, y, z>>)

SpecEntry == InitEntry /\ [][NextEntry]_vars

\* C14: a target handed to exploreToTarget by an entry point has three finite
\* coordinates; NaN, Infinity, -Infinity and missing coordinates are
\* rejected before the call.
C14_NonFiniteRejected ==
    probe /= Null /\ probe.reached =>
        \A i \in 1..3 : isFiniteNumber(probe.target[i])

-----------------------------------------------------------------------------
(* getBlockFromCache and the block cache.  blockCache is a Map: a sequence   *)
(* of entries in insertion order.                                            *)

cacheTimeout == 10000
\* the size the cache may not exceed (5000 in the program), scaled to the model
CacheLimit == 2
MaxCacheTicks == 3

MapGet(m, key) == m[CHOOSE i \in 1..Len(m) : m[i].key = key]
MapDelete(m, key) == SelectSeq(m, LAMBDA e : e.key /= key)

\* a cache whose entries never expire (not what the program does)
AlwaysFresh(time, timestamp) == TRUE

\* line 229
FreshEnough(time, timestamp) == time - timestamp < cacheTimeout

\* an eviction of the entry inserted last (not what the program does)
EvictNewest(cache) == SubSeq(cache, 1, Len(cache) - 1)

\* lines 245-246: the first key of the Map is deleted
EvictFirstKey(cache) == Tail(cache)

\* getBlockFromCache: the cache afterwards, the block returned, whether it
\* came from the cache and with which timestamp, the entry evicted for size
\* (if any) and the cache as it was when the size was tested
getBlockFromCache(cache, w, key, time) ==
    IF MapHas(cache, key) /\ FreshEnough(time, MapGet(cache, key).timestamp)
    THEN [cache |-> cache, block |-> MapGet(cache, key).block, cached |-> TRUE,
          stamp |-> MapGet(cache, key).timestamp, evicted |-> <<>>, full |-> cache]
    ELSE LET c1 == MapDelete(cache, key)
             c2 == Append(c1, [key |-> key, block |-> blockAt(w, key), timestamp |-> time])
             c3 == IF Len(c2) > CacheLimit THEN EvictFirstKey(c2) ELSE c2
         IN IF blockAt(w, key) = Thrown
            THEN [cache |-> c1, block |-> lookupBlock(w, key), cached |-> FALSE,
                  stamp |-> time, evicted |-> <<>>, full |-> c1]
            ELSE [cache |-> c3, block |-> blockAt(w, key), cached |-> FALSE, stamp |-> time,
                  evicted |-> SelectSeq(c2, LAMBDA e : \A i \in 1..Len(c3) : c3[i] /= e),
                  full |-> c2]

\* one call of getBlockFromCache
GetBlockFromCache(key) ==
    /\ \E r \in {getBlockFromCache(blockCache, world, key, now)} :
          /\ blockCache' = r.cache
          /\ probe' = [op |-> "lookup", key |-> key, time |-> now, found |-> blockAt(world, key),
                       had |-> MapHas(blockCache, key), block |-> r.block, cached |-> r.cached,
                       stamp |-> r.stamp, evicted |-> r.evicted, full |-> r.full]
    /\ UNCHANGED <<envVars, percVars, navVars, nav2Vars, nav3Vars, histVars, astar, suspended, ctlVars>>

\* a world in which the lookup of the floor of column 1 gives no block and
\* the lookup of the floor of column 2 throws
HoleWorld == RowWorld(<<"stone", NoBlock, Thrown, "stone">>, <<"air", "stone", "air", "air">>)

\* the positions looked up on their own
CacheCells == {<<0, 0, 0>>, <<1, 0, 0>>, <<1, 1, 0>>, <<2, 0, 0>>}

InitCache == InitWith("2D", HoleWorld)

NextCache ==
    \/ \E key \in CacheCells : GetBlockFromCache(key)
    \/ Tick(cacheTimeout \div 2, MaxCacheTicks * (cacheTimeout \div 2))
    \/ \E k \in EditCells, t \in EditTypes : WorldEdit(k, t)
    \/ PerceptionPass

SpecCache == InitCache /\ [][NextCache]_vars

LookedUp == probe /= Null /\ probe.op = "lookup"

\* C15: a lookup that throws or finds no block gives null and raises nothing:
\* getBlockFromCache returns null, the scan skips the candidate (no record is
\* made of it; a record of such a lookup stands for the exception that
\* reading its name would raise), null on a ray is not an obstruction, and
\* the pass ends with the blocks it did find.
C15_FailedLookupIsUnknown ==
    /\ LookedUp /\ ~probe.cached /\ probe.found \in {NoBlock, Thrown} => probe.block = NoBlock
    /\ \A i \in 1..Len(visibleBlocks) : visibleBlocks[i].type \notin {NoBlock, Thrown}
    /\ \A i \in 1..Len(memoryMap) : memoryMap[i].type \notin {NoBlock, Thrown}
    /\ ~isBlockObstructingRelaxed(NoBlock, EyeOf(botPos), CellOf(EyeOf(botPos)))
    /\ passLog /= Null =>
          \A c \in {generateCandidateBlocks(lastBotPosition)[i] :
                        i \in 1..Len(generateCandidateBlocks(lastBotPosition))} :
              blockAt(world, c) \in {NoBlock, Thrown} => ~MapHas(passLog.merged, c)

\* a pass has ended with blocks found although the lookup of one of its
\* candidates threw and that of another gave no block
C15_Witness ==
    /\ passLog /= Null
    /\ passLog.merged /= <<>>
    /\ \E i, j \in 1..Len(generateCandidateBlocks(lastBotPosition)) :
          /\ blockAt(world, generateCandidateBlocks(lastBotPosition)[i]) = Thrown
          /\ blockAt(world, generateCandidateBlocks(lastBotPosition)[j]) = NoBlock

\* C16: the cache never holds more than the limit, and an entry evicted for
\* size is one with the oldest timestamp of the cache.
C16_CacheBounded ==
    /\ Len(blockCache) <= CacheLimit
    /\ LookedUp =>
          \A i \in 1..Len(probe.evicted) : \A j \in 1..Len(probe.full) :
              probe.evicted[i].timestamp <= probe.full[j].timestamp

\* an entry was evicted for size while a younger entry stayed
C16_Witness ==
    /\ LookedUp
    /\ \E i \in 1..Len(probe.evicted) : \E j \in 1..Len(blockCache) :
          probe.evicted[i].timestamp < blockCache[j].timestamp

\* C17: a value returned from the cache is less than cacheTimeout old; when
\* the entry has expired the world is looked up again and the new entry
\* carries the time of that lookup.
C17_CacheHonoursTTL ==
    LookedUp =>
        /\ probe.cached => probe.time - probe.stamp < cacheTimeout
        /\ ~probe.cached => probe.block = (IF probe.found = Thrown THEN NoBlock ELSE probe.found)
        /\ ~probe.cached /\ probe.found /= Thrown =>
              \E j \in 1..Len(probe.full) :
                  probe.full[j] = [key |-> probe.key, block |-> probe.found, timestamp |-> probe.time]

\* an expired entry was replaced by a lookup that found another block
C17_Witness ==
    /\ LookedUp /\ probe.had /\ ~probe.cached
    /\ probe.block = "stone"
    /\ probe.time - cacheTimeout >= StartTime

-----------------------------------------------------------------------------
(* The gate of updatePerceptionAsync: every call, whether a pass starts or not *)

MaxGateTicks == 3

\* where the bot stands: the start, half a block from it, one block from it
GatePositions == {CellCentre(0, 1, 0), Pos(U, U, U \div 2), CellCentre(1, 1, 0)}

\* bot.entity.yaw in hundredths of a radian
GateYaws == {0, 10, 20}

BotTurnTo(yaw) ==
    /\ yaw /= botYaw
    /\ botYaw' = yaw
    /\ UNCHANGED <<variant, now, botPos, world, worldEdits>>
    /\ UNCHANGED <<percVars, navVars, nav2Vars, nav3Vars, histVars, runVars>>

\* one call of updatePerceptionAsync, awaited to its end with no other call in
\* between.  The array returned is the values of visibleBlocks sorted by
\* distance; it is recorded by its members.
UpdatePerceptionAsync ==
    /\ passes = <<>>
    /\ IF PerceptionDue
       THEN LET cands == generateCandidateBlocks(botPos)
                vis == ScanBatch(world, <<>>, EyeOf(botPos), cands, 1, Len(cands))
            IN /\ visibleBlocks' = vis
               /\ memoryMap' = MemoryMerge(memoryMap, vis, 1)
               /\ passLog' = [merged |-> vis, own |-> vis]
               /\ lastUpdateTime' = now
               /\ lastBotPosition' = botPos
               /\ lastBotYaw' = botYaw
       ELSE UNCHANGED <<visibleBlocks, memoryMap, passLog, lastUpdateTime, lastBotPosition, lastBotYaw>>
    /\ UNCHANGED passes
    /\ probe' = [op |-> "perceive",
                 started |-> PerceptionDue,
                 elapsed |-> now - lastUpdateTime,
                 first |-> lastBotPosition = Null \/ lastBotYaw = NoYaw,
                 moved |-> IF lastBotPosition = Null THEN 0
                           ELSE calculateDistance(botPos, lastBotPosition),
                 turned |-> IF lastBotYaw = NoYaw THEN 0 ELSE Abs(botYaw - lastBotYaw),
                 existing |-> SeqSet(visibleBlocks),
                 returned |-> SeqSet(visibleBlocks'),
                 same |-> <<visibleBlocks', memoryMap', lastUpdateTime', lastBotPosition',
                            lastBotYaw'>>
                          = <<visibleBlocks, memoryMap, lastUpdateTime, lastBotPosition,
                              lastBotYaw>>]
    /\ UNCHANGED <<envVars, navVars, nav2Vars, nav3Vars, histVars, astar, suspended, blockCache, ctlVars>>

InitGate == InitWith("2D", FenceWorld)

NextGate ==
    \/ \E p \in GatePositions : BotMove(p)
    \/ \E yaw \in GateYaws : BotTurnTo(yaw)
    \/ Tick(updateInterval \div 2, MaxGateTicks * (updateInterval \div 2))
    \/ UpdatePerceptionAsync

SpecGate == InitGate /\ [][NextGate]_vars

Perceived == probe /= Null /\ probe.op = "perceive"

\* C18: a pass starts only when at least updateInterval has passed since the
\* last pass started and, unless it is the first pass, the bot has moved at
\* least movementThreshold or its yaw differs by at least 0.2 rad from what
\* they were when that pass started; a call that starts no pass returns the
\* visible set as it was and changes nothing.
C18_PassGated ==
    Perceived =>
        /\ probe.started =>
              /\ probe.elapsed >= updateInterval
              /\ probe.first \/ probe.moved >= movementThreshold \/ probe.turned >= 20
        /\ ~probe.started => probe.same /\ probe.returned = probe.existing

\* a call a full interval after a pass, the bot having moved half a block and
\* turned 0.1 rad since, started no pass
C18_Witness ==
    /\ Perceived /\ ~probe.started /\ ~probe.first
    /\ probe.elapsed >= updateInterval
    /\ probe.moved > 0 /\ probe.turned > 0
    /\ probe.existing /= {}

-----------------------------------------------------------------------------
(* findBestIntermediateTarget on its own: knowledge maps, positions and      *)
(* final targets drawn from small sets                                       *)

\* a stone block under the bot and, five cells on, a stone block with water
\* all around it
IslandMemory ==
    LET ring == getKnowledgeBasedNeighbors(<<5, 0, 0>>)
    IN << MemoryBlock(<<0, 0, 0>>, "stone"), MemoryBlock(<<5, 0, 0>>, "stone") >>
       \o [i \in 1..8 |-> MemoryBlock(ring[i], "water")]

\* a stone floor from the bot to column 6
FloorMemory == [i \in 1..7 |-> MemoryBlock(<<i - 1, 0, 0>>, "stone")]

TargetMemories == {<<>>, IslandMemory, FloorMemory, RowMemory}

\* where the bot stands
TargetPositions == {Pos(0, 0, 0), CellCentre(0, 1, 0), CellCentre(1, 1, 0)}

\* final targets: far along +x, far along +z, far on a diagonal, beyond the
\* floor, and at the level of the floor inside what the memories know
TargetFinals == {Pos(20 * U, 0, 0), Pos(0, 0, 20 * U), CellCentre(20, 1, 15),
                 CellCentre(12, 1, 0), CellCentre(5, 0, 0)}

\* one call of findBestIntermediateTarget; branch tells which return was taken
FindBestIntermediateTarget(final) ==
    /\ variant = "2D"
    /\ \E cur \in {botPos}, by \in {Floor(botPos.y)} :
          probe' = [op |-> "target", K |-> Knowledge, by |-> by, cur |-> cur, final |-> final,
                    branch |-> IF isPositionInKnownArea(Knowledge, final) THEN "known"
                               ELSE IF CandidatePool(Knowledge, by, cur, final) /= <<>> THEN "pool"
                               ELSE "near",
                    result |-> findBestIntermediateTarget(Knowledge, by, cur, final)]
    /\ UNCHANGED <<envVars, percVars, navVars, nav2Vars, nav3Vars, histVars, astar, suspended, blockCache, ctlVars>>

InitTarget ==
    \E mem \in TargetMemories :
        InitGiven("2D", FenceWorld, mem, updateKnowledgeMap(EmptyKnowledge, mem, StartTime))

NextTarget ==
    \/ \E p \in TargetPositions : BotMove(p)
    \/ \E final \in TargetFinals : FindBestIntermediateTarget(final)

SpecTarget == InitTarget /\ [][NextTarget]_vars

Targeted == probe /= Null /\ probe.op = "target"

\* C19: with nothing known, the bot at (0, 0, 0) and the final target at
\* (20, 0, 0) the sub-target is (3, 0, 0); with nothing known the sub-target
\* is always at the bot's height, 3 from it (to the hundredth the lengths
\* are rounded to) and on the side of the final target.
C19_NearTargetFallback ==
    Targeted /\ probe.K.knowledgeMap = EmptyFun =>
        /\ probe.branch = "near"
        /\ probe.cur = Pos(0, 0, 0) /\ probe.final = Pos(20 * U, 0, 0) => probe.result = Pos(3 * U, 0, 0)
        /\ probe.result.y = probe.cur.y
        /\ distance2D(probe.cur, probe.result) \in (3 * U - 1)..(3 * U)
        /\ Dist2Sq(probe.result, probe.final) < Dist2Sq(probe.cur, probe.final)

\* the call of the scenario has been made
C19_Witness ==
    /\ Targeted /\ probe.K.knowledgeMap = EmptyFun
    /\ probe.cur = Pos(0, 0, 0) /\ probe.final = Pos(20 * U, 0, 0)
    /\ probe.result = Pos(3 * U, 0, 0)

\* the columns within one cell of everything known, of a and of b
BoxAround(K, a, b) ==
    LET cols == {<<k[1], k[3]>> : k \in DOMAIN K.knowledgeMap}
                \cup {<<Floor(a.x), Floor(a.z)>>, <<Floor(b.x), Floor(b.z)>>}
    IN {<<c[1] + dx, c[2] + dz>> : c \in cols, dx \in -1..1, dz \in -1..1}

\* a column the search may enter: it holds a block classified as a safe area,
\* or the position on its ground is safe under the knowledge map
SafeColumn(K, by, c) ==
    \/ \E k \in SeqSet(K.safeAreas) : k[1] = c[1] /\ k[3] = c[2]
    \/ isPositionSafeKnowledge(K, OnGround(K, by, c[1] * U, c[2] * U))

\* the columns a breadth-first search reaches from those of seen in n more levels
RECURSIVE ReachedFrom(_, _, _, _, _)
ReachedFrom(K, by, box, seen, n) ==
    LET more == {c \in box \ seen :
                    /\ SafeColumn(K, by, c)
                    /\ \E d \in seen : Abs(c[1] - d[1]) <= 1 /\ Abs(c[2] - d[2]) <= 1}
    IN IF n = 0 \/ more = {} THEN seen
       ELSE ReachedFrom(K, by, box, seen \cup more, n - 1)

\* b is reached from a by a breadth-first search over safe columns, eight
\* neighbours a column, of at most 100 levels.  Everything outside the box is
\* unknown, so a search that leaves the box reaches nothing inside it that a
\* search along its rim does not.
ReachableOverSafeCells(K, by, a, b) ==
    <<Floor(b.x), Floor(b.z)>> \in
        ReachedFrom(K, by, BoxAround(K, a, b), {<<Floor(a.x), Floor(a.z)>>}, 100)

\* C20: a sub-target taken from the candidate pool is safe under the knowledge
\* map, within maxJumpHeight of the bot's height, between 2 and 15 from the
\* bot, and reachable from the bot by the bounded breadth-first search over
\* safe cells.
C20_PoolTargetQualified ==
    Targeted /\ probe.branch = "pool" =>
        /\ isPositionSafeKnowledge(probe.K, probe.result)
        /\ Abs(probe.result.y - probe.cur.y) <= maxJumpHeight
        /\ Dist2Sq(probe.cur, probe.result) >= (2 * U) * (2 * U)
        /\ Dist2Sq(probe.cur, probe.result) <= (15 * U) * (15 * U)
        /\ ReachableOverSafeCells(probe.K, probe.by, probe.cur, probe.result)

\* the part of C20 the program keeps: safe, height-accessible and in the band
C20_PoolTargetScreened ==
    Targeted /\ probe.branch = "pool" =>
        /\ isPositionSafeKnowledge(probe.K, probe.result)
        /\ Abs(probe.result.y - probe.cur.y) <= maxJumpHeight
        /\ Dist2Sq(probe.cur, probe.result) >= (2 * U) * (2 * U)
        /\ Dist2Sq(probe.cur, probe.result) <= (15 * U) * (15 * U)

\* C21: the final target itself (on its known ground) is returned only when
\* it has a known voxel within 2 of it and is reachable from the bot over
\* safe cells.
C21_KnownTargetReachable ==
    Targeted /\ probe.branch = "known" =>
        /\ isPositionInKnownArea(probe.K, probe.final)
        /\ probe.result = adjustToGroundKnowledge(probe.K, probe.by, probe.final)
        /\ ReachableOverSafeCells(probe.K, probe.by, probe.cur, probe.final)

-----------------------------------------------------------------------------
(* Planning and following on a known floor: the bot is told where to go,     *)
(* plans, and walks to each waypoint it is given                             *)

CorridorLen == 10
MaxCorridorTicks == 2

\* a straight stone floor of CorridorLen cells from the bot on, nothing else known
CorridorMemory == [i \in 1..CorridorLen |-> MemoryBlock(<<i - 1, 0, 0>>, "stone")]

\* the far end of the corridor
CorridorGoal == CellCentre(CorridorLen - 1, 1, 0)

\* the far end, and a cell half way
CorridorTargets == {CorridorGoal, CellCentre(CorridorLen \div 2, 1, 0)}

\* the bot arrives at the waypoint of the plan that the last call returned
ReachWaypoint ==
    /\ call /= Null
    /\ call.ret \in SeqSet(plannedPath)
    /\ BotMove(call.ret)

InitCorridor ==
    InitGiven("2D", FenceWorld, CorridorMemory,
              updateKnowledgeMap(EmptyKnowledge, CorridorMemory, StartTime))

\* a navigation tick after the bot has moved or time has passed
FollowTick(target) ==
    /\ call = Null
    /\ Explore2D(target)

NextCorridor ==
    \/ \E target \in CorridorTargets : FollowTick(target)
    \/ ReachWaypoint
    \/ Tick(replanInterval, MaxCorridorTicks * replanInterval)

SpecCorridor == InitCorridor /\ [][NextCorridor]_vars

\* what knowledgeBasedAStar returned to the replanPath of the call just made
\* (the bot and the knowledge map are as that call left them)
RawPath ==
    knowledgeBasedAStar(Knowledge, Floor(botPos.y), botPos,
        findBestIntermediateTarget(Knowledge, Floor(botPos.y), botPos, finalTarget))

Replanned == call /= Null /\ call.replanned

\* C22: on the straight corridor with no obstacle known, a plan towards the
\* far end is the simplified search path, with fewer waypoints than the
\* search path itself, and the cursor stays within the plan while it is
\* followed.
C22_CorridorPlanSimplified ==
    /\ Replanned /\ call.target = CorridorGoal /\ botPos = CellCentre(0, 1, 0) =>
          /\ RawPath /= Null
          /\ Len(plannedPath) < Len(RawPath.array)
    /\ 0 <= pathIndex /\ pathIndex <= Len(plannedPath)

-----------------------------------------------------------------------------
(* A fence post turns up in the corridor while a plan is being followed *)

MaxDetourTicks == 2

\* the cell of the corridor where the fence post stands, at the bot's level
FenceCell == <<3, 1, 0>>

\* the half-way cell of the corridor
DetourTargets == {CellCentre(CorridorLen \div 2, 1, 0)}

\* a perception pass has added the fence post to the memory
DiscoverFence ==
    /\ ~MapHas(memoryMap, FenceCell)
    /\ memoryMap' = Append(memoryMap, MemoryBlock(FenceCell, "oak_fence"))
    /\ call' = Null
    /\ UNCHANGED <<envVars, visibleBlocks, lastUpdateTime, lastBotPosition, lastBotYaw, passes,
                   passLog, navVars, nav2Vars, nav3Vars, purged, samples, runVars>>

InitDetour == InitCorridor

NextDetour ==
    \/ \E target \in DetourTargets : FollowTick(target)
    \/ ReachWaypoint
    \/ DiscoverFence
    \/ Tick(replanInterval \div 2, MaxDetourTicks * (replanInterval \div 2))

SpecDetour == InitDetour /\ [][NextDetour]_vars

\* the call just made did not replan, found the waypoint at its cursor
\* blocked, and findDetourPath had a candidate
Detoured ==
    /\ call /= Null /\ ~call.replanned /\ variant = "2D"
    /\ call.index < Len(call.path)
    /\ LET wp == At(call.path, call.index)
           by == Floor(botPos.y)
       IN /\ Dist2Sq(botPos, wp) >= goalRadius * goalRadius
          /\ ~(isPathClearInKnowledgeMap(Knowledge, by, botPos, wp) /\ isHeightAccessible(botPos, wp))
          /\ DetourOptions(Knowledge, by, botPos, wp, 1) /= <<>>

\* the distance of d from the line through a towards b is at least k (lengths
\* are rounded to a hundredth, twice on the way to d)
LateralAtLeast(a, b, d, k) ==
    Abs((b.x - a.x) * (d.z - a.z) - (b.z - a.z) * (d.x - a.x)) >= (k - 3) * distance2D(a, b)

\* C23: when the waypoint at the cursor is blocked and findDetourPath has a
\* candidate, the point returned lies at least 2 to the side of the line to
\* the blocked waypoint, is safe, clear of the bot in the knowledge map and
\* height-accessible, and has been inserted at the cursor: it is
\* plannedPath[pathIndex], the blocked waypoint follows it, the path is one
\* longer and the cursor is where it was.
C23_DetourInserted ==
    Detoured =>
        /\ call.ret /= Null
        /\ LateralAtLeast(botPos, At(call.path, call.index), call.ret, 2 * U)
        /\ isPositionSafeKnowledge(Knowledge, call.ret)
        /\ isPathClearInKnowledgeMap(Knowledge, Floor(botPos.y), botPos, call.ret)
        /\ isHeightAccessible(botPos, call.ret)
        /\ pathIndex = call.index
        /\ Len(plannedPath) = Len(call.path) + 1
        /\ At(plannedPath, pathIndex) = call.ret
        /\ At(plannedPath, pathIndex + 1) = At(call.path, call.index)

\* the fence post blocked the waypoint of a plan and a detour was inserted
C23_Witness ==
    /\ Detoured
    /\ MapHas(memoryMap, FenceCell)
    /\ At(plannedPath, pathIndex) = call.ret
    /\ Len(plannedPath) > Len(call.path)

-----------------------------------------------------------------------------
(* The second variant in water *)

\* the voxel at the bot's position, half a block below it or half a block
\* above it is known to be water
KnownInWater ==
    \E dy \in {0, 0 - U \div 2, U \div 2} :
        LET key == <<Floor(botPos.x), Floor(botPos.y + dy), Floor(botPos.z)>>
        IN key \in DOMAIN voxelMap /\ Includes(voxelMap[key], "water")

DrySupportedCells ==
    {c \in {<<k[1], k[2] + 1, k[3]>> : k \in DOMAIN voxelMap} :
        isDryLandPosition(voxelMap, parseVoxelKey(c))}

\* p lies in a dry supported cell that is as near to the bot as any
TargetsNearestDryCell(p) ==
    /\ getVoxelKey(p) \in DrySupportedCells
    /\ \A d \in DrySupportedCells :
          SquaredDistance(botPos, parseVoxelKey(getVoxelKey(p)))
              <= SquaredDistance(botPos, parseVoxelKey(d))

\* C25: the emergency move of a call that begins in known water targets the
\* nearest dry supported cell when one is known, and is the vertical ascent
\* (the bot's x and z, a higher y) when none is known.
C25_EmergencyMove ==
    [][(variant = "3D" /\ call' /= Null /\ KnownInWater) =>
          IF DrySupportedCells /= {}
          THEN TargetsNearestDryCell(call'.ret)
          ELSE call'.ret.x = botPos.x /\ call'.ret.z = botPos.z /\ call'.ret.y > botPos.y]_vars

\* C40 as stated: in the second variant safeAirSpaces stays empty, so that in
\* a call made in known water findNearestDryLand returns null and the exit
\* move never lies in a known dry supported cell.
C40_DryCellNeverTargeted ==
    [][variant = "3D" =>
          /\ safeAirSpaces = <<>> /\ safeAirSpaces' = <<>>
          /\ (call' /= Null /\ KnownInWater) =>
                 /\ findNearestDryLand(voxelMap, safeAirSpaces, botPos) = Null
                 /\ getVoxelKey(call'.ret) \notin DrySupportedCells]_vars

\* C40: in the second variant safeAirSpaces stays empty, so that in a call
\* made in known water findNearestDryLand returns null and the exit move is
\* the first candidate of findNonWaterDirection, or the ascent when there is
\* none; a known dry cell is reached only if that candidate lies in one.
C40_DryLandSearchNeverSucceeds ==
    [][variant = "3D" =>
          /\ safeAirSpaces = <<>> /\ safeAirSpaces' = <<>>
          /\ (call' /= Null /\ KnownInWater) =>
                 /\ findNearestDryLand(voxelMap, safeAirSpaces, botPos) = Null
                 /\ call'.ret = IF findNonWaterDirection(voxelMap, botPos) /= Null
                                 THEN findNonWaterDirection(voxelMap, botPos)
                                 ELSE Pos(botPos.x, botPos.y + 3 * U, botPos.z)]_vars

\* a call made in known water with dry supported cells known and the memory
\* merged: the exit move is the candidate of findNonWaterDirection and lies
\* in one of those cells
C40_Witness ==
    /\ variant = "3D" /\ call /= Null /\ KnownInWater
    /\ safeAirSpaces = <<>> /\ memoryMap /= <<>>
    /\ DrySupportedCells /= {}
    /\ call.ret = findNonWaterDirection(voxelMap, botPos)
    /\ getVoxelKey(call.ret) \in DrySupportedCells

-----------------------------------------------------------------------------
(* The fallbacks of exploreToTarget, first variant: calls whose search fails *)
(* and calls that have no waypoint to return                                 *)

MaxExploreTicks == 1

\* the offsets, from the bot's cell, of the boulders of BoulderMemory: every
\* cell within 8 of the bot has one within 2 of it, none stands in a column
\* at an even offset
BoulderOffsets == {0 - 7, 0 - 3, 1, 5, 7}

\* stone blocks at the bot's level all around, and a fence post two cells ahead
BoulderMemory ==
    LET cells == {<<dx, 1, dz>> : dx \in BoulderOffsets, dz \in BoulderOffsets}
        RECURSIVE InOrder(_)
        InOrder(S) == IF S = {} THEN <<>>
                      ELSE LET c == CHOOSE c \in S : TRUE
                           IN <<MemoryBlock(c, "stone")>> \o InOrder(S \ {c})
    IN InOrder(cells) \o <<MemoryBlock(<<2, 1, 0>>, "oak_fence")>>

ExploreMemories == {CorridorMemory, BoulderMemory}

\* the far end of the corridor, and the cell the bot stands in
ExploreTargets == {CorridorGoal, CellCentre(0, 1, 0)}

InitExplore ==
    \E mem \in ExploreMemories :
        InitGiven("2D", FenceWorld, mem, updateKnowledgeMap(EmptyKnowledge, mem, StartTime))

NextExplore ==
    \/ \E target \in ExploreTargets : FollowTick(target)
    \/ ReachWaypoint
    \/ Tick(replanInterval, MaxExploreTicks * replanInterval)

SpecExplore == InitExplore /\ [][NextExplore]_vars

\* path is the current position followed by points that pass the safety
\* check, each a whole number of 2-block increments away (the model rounds to
\* hundredths: 0.03 of tolerance); the point at the cursor may instead be the
\* detour that the same call inserted and returned
ExploratoryPlan(K, cur, path, cursor, ret) ==
    /\ Len(path) >= 1
    /\ path[1] = cur
    /\ \A j \in 2..Len(path) :
          /\ isPositionSafeKnowledge(K, path[j])
          /\ \/ \E i \in 1..5 : Abs(distance2D(cur, path[j]) - 2 * i * U) <= 3
             \/ j = cursor + 1 /\ path[j] = ret

\* p is a safe point outside the known area, among those searched, with none nearer
NearestUnexplored(K, by, cur, p) ==
    \E n \in 1..81 :
        /\ p = UnexploredAt(K, by, cur, n)
        /\ UnexploredOk(K, p)
        /\ \A m \in 1..81 :
              UnexploredOk(K, UnexploredAt(K, by, cur, m)) =>
                  Dist2Sq(cur, p) <= Dist2Sq(cur, UnexploredAt(K, by, cur, m))

AnyUnexplored(K, by, cur) == \E n \in 1..81 : UnexploredOk(K, UnexploredAt(K, by, cur, n))

\* p is a safe, height-accessible point 1 to 4 blocks away
IsRandomSafeMove(K, cur, p) ==
    /\ isPositionSafeKnowledge(K, p)
    /\ isHeightAccessible(cur, p)
    /\ U * U <= Dist2Sq(cur, p) /\ Dist2Sq(cur, p) <= (4 * U) * (4 * U)

\* p is within a quarter of a block of cur in x and in z, at the same height
IsJitter(cur, p) == p.y = cur.y /\ Abs(p.x - cur.x) <= 25 /\ Abs(p.z - cur.z) <= 25

\* the point returned follows the order of exploratoryMovement
FallbackInOrder(K, by, cur, p) ==
    IF AnyUnexplored(K, by, cur) THEN NearestUnexplored(K, by, cur, p)
    ELSE \/ IsRandomSafeMove(K, cur, p)
         \/ IsJitter(cur, p) /\ Null \in RandomSafeMovements(K, by, cur)

\* the call just made had no waypoint to return: the plan is used up, or the
\* position was not tracked (the bot, the plan and the knowledge map are as
\* the call left them)
NoWaypoint == pathIndex >= Len(plannedPath) \/ lastPosition /= botPos

\* C30: a call of exploreToTarget always returns a move; when the search of
\* its replanning fails, the plan is the current position followed by
\* fixed-increment steps that each pass the safety check; when it has no
\* waypoint to return, the move is the nearest safe point outside the known
\* area, else a random safe height-accessible move, else a small jitter.
C30_ExploratoryFallback ==
    (variant = "2D" /\ call /= Null) =>
        /\ call.ret /= Null
        /\ (Replanned /\ RawPath = Null) => ExploratoryPlan(Knowledge, botPos, plannedPath, pathIndex, call.ret)
        /\ NoWaypoint => FallbackInOrder(Knowledge, Floor(botPos.y), botPos, call.ret)

\* C38: the waypoint that exploratoryMovement returns through its
\* unexplored-area branch is never in the agent's own cell: its 2D
\* displacement from the current position is not zero.
C38_UnexploredMoveLeavesCell ==
    (variant = "2D" /\ call /= Null /\ NoWaypoint
        /\ AnyUnexplored(Knowledge, Floor(botPos.y), botPos)) =>
        /\ Dist2Sq(botPos, call.ret) > 0
        /\ CellXZ(call.ret) /= CellXZ(botPos)

\* a call with no waypoint to return, nothing unexplored around, answered by a jitter
C30_Witness ==
    /\ call /= Null
    /\ pathIndex >= Len(plannedPath)
    /\ ~AnyUnexplored(Knowledge, Floor(botPos.y), botPos)
    /\ IsJitter(botPos, call.ret)

-----------------------------------------------------------------------------
(* The knowledge map on its own: merges of the perception memory *)

MaxIdle == 1

UpdateKnowledgeMap ==
    /\ variant = "2D"
    /\ LET K == updateKnowledgeMap(Knowledge, memoryMap, now)
       IN /\ knowledgeMap' = K.knowledgeMap
          /\ obstacleMap' = K.obstacleMap
          /\ safeAreas' = K.safeAreas
          /\ exploredBoundary' = K.exploredBoundary
    /\ purged' = PurgeRecord(Knowledge, now)
    /\ UNCHANGED <<lastPosition, call, samples>>
    /\ UNCHANGED <<envVars, percVars, navVars, nav3Vars, runVars>>

InitKnow == InitWith("2D", FenceWorld)

NextKnow ==
    \/ \E p \in EndPositions : BotMove(p)
    \/ \E k \in EditCells, t \in EditTypes : WorldEdit(k, t)
    \/ \E d \in {maxAge, maxAge + 1} : Tick(d, MaxIdle * (maxAge + 1))
    \/ PerceptionPass
    \/ UpdateKnowledgeMap

SpecKnow == InitKnow /\ [][NextKnow]_vars

MemoryType(key) == memoryMap[CHOOSE i \in 1..Len(memoryMap) : memoryMap[i].key = key].type

\* C1: no position key is in obstacleMap and in safeAreas at once, neither
\* after a merge nor between the purge and the merge of one updateKnowledgeMap.
C1_ObstacleSafeDisjoint ==
    /\ obstacleMap \cap SeqSet(safeAreas) = {}
    /\ purged /= Null => purged.obstacleMap \cap SeqSet(purged.safeAreas) = {}

\* the headroom key of a fence holds a remembered stone block: both branches
\* of the classification have acted on that key in one merge
C1_Witness ==
    \E k \in DOMAIN knowledgeMap :
        /\ MapHas(memoryMap, k) /\ MemoryType(k) = "stone"
        /\ MapHas(memoryMap, <<k[1], k[2] - 1, k[3]>>)
        /\ MemoryType(<<k[1], k[2] - 1, k[3]>>) = "oak_fence"
        /\ k \in obstacleMap \cup SeqSet(safeAreas)

\* C5: after an updateKnowledgeMap call at time t, every key in obstacleMap,
\* safeAreas or exploredBoundary has a knowledge-map entry stamped no earlier
\* than t - maxAge.
C5_NoStaleMembers ==
    purged /= Null =>
        \A k \in obstacleMap \cup SeqSet(safeAreas) \cup SeqSet(exploredBoundary) :
            /\ k \in DOMAIN knowledgeMap
            /\ knowledgeMap[k].timestamp >= purged.time - maxAge

\* a merge whose purge removed entries of explored positions
C5_Witness ==
    /\ purged /= Null
    /\ purged.removed \cap SeqSet(exploredBoundary) /= {}

\* C6: every key in obstacleMap or safeAreas has a knowledgeMap entry, after a
\* merge and right after the purge.
C6_NoDanglingMembership ==
    /\ obstacleMap \cup SeqSet(safeAreas) \subseteq DOMAIN knowledgeMap
    /\ purged /= Null => purged.obstacleMap \cup SeqSet(purged.safeAreas) \subseteq purged.known

\* a purge removed the entry of a key that the merge then marked as the
\* headroom of a fence
C6_Witness ==
    /\ purged /= Null
    /\ \E k \in purged.removed \cap obstacleMap :
           /\ MapHas(memoryMap, <<k[1], k[2] - 1, k[3]>>)
           /\ MemoryType(<<k[1], k[2] - 1, k[3]>>) = "oak_fence"

\* the voxel directly above every remembered fence block is an obstacle and
\* is not a safe area
FenceHeadroomMarked ==
    \A i \in 1..Len(memoryMap) :
        Includes(memoryMap[i].type, "fence") =>
            LET k == memoryMap[i].key
                aboveKey == <<k[1], k[2] + 1, k[3]>>
            IN aboveKey \in obstacleMap /\ aboveKey \notin SeqSet(safeAreas)

\* C26: after any updateKnowledgeMap, for every fence-type block in the merged
\* memory list the voxel directly above it is in obstacleMap and not in
\* safeAreas, whatever block the memory holds for that upper voxel and in
\* whatever order the two are processed.
C26_FenceHeadroom == [][UpdateKnowledgeMap => FenceHeadroomMarked']_vars

-----------------------------------------------------------------------------
(* updateKnowledgeMap over memory lists of every order: the perception adds  *)
(* blocks of one column to its memory one at a time, merges run in between.  *)

MaxMergeIdle == 1

\* a fence post position, the voxel above it and the voxel above that one
MergeKeys == {<<2, 0, 0>>, <<2, 1, 0>>}
MergeTypes == {"stone", "oak_fence", "water", "sand"}

\* a perception pass has added one block to the memory
RememberBlock(key, t) ==
    /\ ~MapHas(memoryMap, key)
    /\ memoryMap' = Append(memoryMap, MemoryBlock(key, t))
    /\ call' = Null
    /\ UNCHANGED <<envVars, visibleBlocks, lastUpdateTime, lastBotPosition, lastBotYaw, passes,
                   passLog, navVars, nav2Vars, nav3Vars, purged, samples, runVars>>

InitMerge == InitWith("2D", FenceWorld)

NextMerge ==
    \/ \E key \in MergeKeys, t \in MergeTypes : RememberBlock(key, t)
    \/ \E d \in {maxAge, maxAge + 1} : Tick(d, MaxMergeIdle * (maxAge + 1))
    \/ UpdateKnowledgeMap

SpecMerge == InitMerge /\ [][NextMerge]_vars

\* the entry written for the voxel above a fence (lines 105-112)
IsHeadroomEntry(e) == e.type = "air" /\ ~e.passable

\* every key is an obstacle exactly when its entry is one, and a safe area
\* exactly when the material of its entry is safe ground
MembershipFollowsEntry ==
    \A k \in DOMAIN knowledgeMap \cup obstacleMap \cup SeqSet(safeAreas) :
        /\ k \in obstacleMap <=>
               /\ k \in DOMAIN knowledgeMap
               /\ isBlockObstacle(knowledgeMap[k].type) \/ IsHeadroomEntry(knowledgeMap[k])
        /\ k \in SeqSet(safeAreas) <=>
               /\ k \in DOMAIN knowledgeMap
               /\ isBlockSafe(knowledgeMap[k].type)

\* C27: after any merge a key is in obstacleMap exactly when its current
\* knowledgeMap entry is an obstacle (water or fence material, or a headroom
\* entry) and in safeAreas exactly when the material of its current entry is
\* safe ground; no membership survives from an earlier entry at that key.
C27_MembershipFollowsEntry == [][UpdateKnowledgeMap => MembershipFollowsEntry']_vars

\* C28: every key of knowledgeMap, the headroom keys above fences included,
\* is a key of exploredBoundary, and exploredBoundary never loses a key.
C28_BoundaryHoldsEveryKey ==
    [][/\ DOMAIN knowledgeMap' \subseteq SeqSet(exploredBoundary')
       /\ SeqSet(exploredBoundary) \subseteq SeqSet(exploredBoundary')]_vars

\* every remembered position has a knowledge-map entry stamped with the
\* current time
MemoryRestamped ==
    \A i \in 1..Len(memoryMap) :
        /\ memoryMap[i].key \in DOMAIN knowledgeMap
        /\ knowledgeMap[memoryMap[i].key].timestamp = now

\* C39: after every updateKnowledgeMap call each position in the perception
\* memory has a knowledge-map entry stamped with the time of that call, so
\* the key set of the knowledge map never shrinks below that of the memory,
\* however far apart in time the merges are.
C39_MemoryNeverForgotten == [][UpdateKnowledgeMap => MemoryRestamped']_vars

\* a merge whose purge removed the entry of a remembered position, which the
\* same merge has put back
C39_Witness ==
    /\ purged /= Null
    /\ purged.time = now
    /\ \E i \in 1..Len(memoryMap) :
           /\ memoryMap[i].key \in purged.removed
           /\ memoryMap[i].key \in DOMAIN knowledgeMap
           /\ knowledgeMap[memoryMap[i].key].timestamp = now

-----------------------------------------------------------------------------
(* BotController.memoryBlocks (botController.js).  updateMemoryData runs on  *)
(* every physicTick and returns at once unless memoryUpdateInterval has      *)
(* passed.  It remembers the first batchSize visible blocks within the call, *)
(* hands the rest to setTimeout one batch at a time, and applies the size    *)
(* limit within the call, right after the first batch.  The limit and the    *)
(* batch size are scaled to the handful of positions of the model.           *)

memoryUpdateInterval == 2000
\* maxMemorySize (5000 in the source), scaled
maxMemorySize == 2
\* batchSize (50 in the source), scaled
batchSize == 2
\* updateMemoryData calls that get past the interval test in one run
MaxMemoryTicks == 2
\* the longest list the perception hands over
MaxVisible == 3

\* the columns whose block the perception may report, nearest first, and
\* what the block of the nearest column may be made of (the others are stone)
MemoryColumns == 1..4
MemoryTypes == {"stone", "dirt"}

\* the columns of S in the order of their distance from the bot
NearestFirst(S) ==
    CHOOSE l \in [1..Cardinality(S) -> S] : \A i, j \in 1..Cardinality(S) : i < j => l[i] < l[j]

\* getVisibleBlocksArray: the visible blocks sorted by distance, each position once
VisibleLists ==
    {[i \in 1..Cardinality(S) |->
         [position |-> Pos(NearestFirst(S)[i] * U, 0, 0),
          type |-> IF NearestFirst(S)[i] = 1 THEN t ELSE "stone"]] :
       S \in {T \in SUBSET MemoryColumns : Cardinality(T) <= MaxVisible}, t \in MemoryTypes}

\* memoryBlocks.has(key): the key is the text of the integer position
MemoryHas(mem, position) == \E i \in 1..Len(mem) : mem[i].position = position

\* lines 81-92: one block of a batch
memorizeBlock(mem, block, time) ==
    IF MemoryHas(mem, block.position)
    THEN [i \in 1..Len(mem) |->
            IF mem[i].position = block.position
            THEN [mem[i] EXCEPT !.lastSeenTime = time]
            ELSE mem[i]]
    ELSE Append(mem, [position |-> block.position, type |-> block.type,
                      firstSeenTime |-> time, lastSeenTime |-> time])

\* lines 80-93: the blocks from index i (from 1) up to endIndex
RECURSIVE memorizeBlocks(_, _, _, _, _)
memorizeBlocks(mem, blocks, i, endIndex, time) ==
    IF i > endIndex \/ Len(mem) < 0 THEN mem
    ELSE memorizeBlocks(memorizeBlock(mem, blocks[i], time), blocks, i + 1, endIndex, time)

\* processBatch, lines 77-100: the memory after the batch and processedCount
processBatch(mem, blocks, processedCount, time) ==
    LET endIndex == Min(processedCount + batchSize, Len(blocks))
    IN [memoryBlocks |-> memorizeBlocks(mem, blocks, processedCount + 1, endIndex, time),
        processedCount |-> endIndex]

\* the place of entry i when the entries are sorted by lastSeenTime (the sort
\* is stable), counted from 0
SortPlace(mem, i) ==
    Cardinality({j \in 1..Len(mem) :
        \/ mem[j].lastSeenTime < mem[i].lastSeenTime
        \/ mem[j].lastSeenTime = mem[i].lastSeenTime /\ j < i})

\* lines 105-111: the least recently seen entries beyond maxMemorySize go
limitMemory(mem) ==
    IF Len(mem) > maxMemorySize
    THEN LET toRemove == {mem[i].position : i \in {j \in 1..Len(mem) :
                             SortPlace(mem, j) < Len(mem) - maxMemorySize}}
         IN SelectSeq(mem, LAMBDA e : e.position \notin toRemove)
    ELSE mem

\* the first insertions on record, with those of the positions mem holds and
\* the record does not
FirstInsertions(first, mem) ==
    [p \in DOMAIN first \cup {mem[i].position : i \in 1..Len(mem)} |->
        IF p \in DOMAIN first THEN first[p]
        ELSE LET e == CHOOSE e \in {mem[i] : i \in 1..Len(mem)} : e.position = p
             IN [type |-> e.type, firstSeenTime |-> e.firstSeenTime]]

\* updateMemoryData, lines 62-117: the controller after the call, and the
\* processBatch callback it hands to setTimeout, if any
updateMemoryData(C, blocks, time) ==
    IF time - C.lastMemoryUpdate < memoryUpdateInterval
    THEN [controller |-> C, timer |-> <<>>, seen |-> C.memoryBlocks]
    ELSE LET r == processBatch(C.memoryBlocks, blocks, 0, time)
         IN [controller |-> [C EXCEPT !.lastMemoryUpdate = time,
                                      !.memoryBlocks = limitMemory(r.memoryBlocks)],
             timer |-> IF r.processedCount < Len(blocks)
                       THEN <<[blocks |-> blocks, processedCount |-> r.processedCount, now |-> time]>>
                       ELSE <<>>,
             seen |-> r.memoryBlocks]

-----------------------------------------------------------------------------
(* BotController's navigation (botController.js).  navigateTo and replanPath *)
(* are async: each runs to its await of exploreToTarget within the callback  *)
(* that called it and continues as a promise job once the pathfinder has     *)
(* answered.  The pathfinder is a stub that answers null, an empty array or  *)
(* a path of two points, as exploreToTarget does ([currentPos, nextStep]).   *)

waypointRadius == 100
pathUpdateInterval == 2000
\* getMemoryBlocks returns this many values at most
memoryViewLimit == 1000

\* pi and pi/2 in hundredths of a radian
Pi == 314
HalfPi == 157

Dist3Sq(a, b) ==
    (a.x - b.x) * (a.x - b.x) + (a.y - b.y) * (a.y - b.y) + (a.z - b.z) * (a.z - b.z)

\* clearMovement, lines 312-316
clearMovement(C) == [C EXCEPT !.movementState = {}]

\* stopNavigation, lines 384-396
stopNavigation(C) ==
    clearMovement([C EXCEPT !.isNavigating = FALSE, !.target = Null, !.currentTarget = Null,
                            !.currentPath = <<>>, !.currentWaypointIndex = 0])

\* getMemoryBlocks, lines 119-121
getMemoryBlocks(C) == SubSeq(C.memoryBlocks, 1, Min(Len(C.memoryBlocks), memoryViewLimit))

\* findNearestMemoryBlockToTarget, lines 142-160: the first of the nearest
\* positions, Null when nothing is remembered
findNearestMemoryBlockToTarget(C, target) ==
    LET view == getMemoryBlocks(C)
    IN IF view = <<>> THEN Null
       ELSE LET i == CHOOSE i \in 1..Len(view) :
                        /\ \A j \in 1..Len(view) :
                               Dist3Sq(view[i].position, target) <= Dist3Sq(view[j].position, target)
                        /\ \A j \in 1..(i - 1) :
                               Dist3Sq(view[j].position, target) > Dist3Sq(view[i].position, target)
            IN view[i].position

\* navigateTo, lines 166-169: what it writes before its await
navigateToBegin(C, target) ==
    [C EXCEPT !.target = target, !.isNavigating = TRUE, !.currentTarget = target]

\* Math.atan2(-dx, -dz) for the offsets of the model, which lie along the x
\* axis: dz is 0, so the second argument is -0
targetYawOf(dx) == IF dx > 0 THEN 0 - HalfPi ELSE IF dx < 0 THEN HalfPi ELSE 0 - Pi

\* lines 280-283: the difference brought into [-pi, pi]
normalizeYaw(d) == IF d > Pi THEN d - 2 * Pi ELSE IF d < 0 - Pi THEN d + 2 * Pi ELSE d

\* calculateMovement, lines 272-303: the controls it leaves held down, and
\* the yaw bot.look turns the bot to
calculateMovement(C, currentPos, targetPos, currentYaw) ==
    LET targetYaw == targetYawOf(targetPos.x - currentPos.x)
        yawDiff == normalizeYaw(targetYaw - currentYaw)
        controls == IF Abs(yawDiff) > 10
                    THEN (IF yawDiff > 0 THEN {"left"} ELSE {"right"})
                    ELSE {"forward"} \cup (IF targetPos.y - currentPos.y > 50 THEN {"jump"} ELSE {})
    IN [controller |-> [C EXCEPT !.movementState = controls], yaw |-> targetYaw]

\* moveTowardWaypoint, lines 243-270
moveTowardWaypoint(C, botPosition, yaw) ==
    IF C.currentPath = <<>> \/ C.currentWaypointIndex >= Len(C.currentPath)
    THEN [controller |-> clearMovement(C), yaw |-> yaw]
    ELSE LET waypoint == C.currentPath[C.currentWaypointIndex + 1]
         IN IF Dist3Sq(botPosition, waypoint) < waypointRadius * waypointRadius
            THEN LET C1 == [C EXCEPT !.currentWaypointIndex = C.currentWaypointIndex + 1]
                 IN [controller |-> IF C1.currentWaypointIndex >= Len(C1.currentPath)
                                    THEN clearMovement(C1) ELSE C1,
                     yaw |-> yaw]
            ELSE calculateMovement(C, botPosition, waypoint, yaw)

\* updateNavigation, lines 211-241: the controller, the bot's yaw and whether
\* replanPath was called (it is called once target is known to be set, so it
\* gets to its await)
updateNavigation(C, currentPos, yaw, time) ==
    IF ~C.isNavigating \/ C.target = Null
    THEN [controller |-> C, yaw |-> yaw, replan |-> FALSE]
    ELSE IF Dist3Sq(currentPos, C.target) < waypointRadius * waypointRadius
    THEN [controller |-> stopNavigation(C), yaw |-> yaw, replan |-> FALSE]
    ELSE LET r == moveTowardWaypoint(C, currentPos, yaw)
         IN IF time - r.controller.lastPathUpdate > pathUpdateInterval
            THEN [controller |-> [r.controller EXCEPT !.lastPathUpdate = time],
                  yaw |-> r.yaw, replan |-> TRUE]
            ELSE [controller |-> r.controller, yaw |-> r.yaw, replan |-> FALSE]

\* a call waiting at its await: which function, who called it, and the
\* pathfinder's answer once there is one
Waiting(op, by) == [op |-> op, by |-> by, result |-> NoAnswer]

\* calls one event-loop turn may start from chat lines or socket frames
\* delivered by one read; a handler runs before any promise job of its turn
HandlerMayRun ==
    /\ Len(awaiting) < MaxSameTurn
    /\ \A i \in 1..Len(awaiting) : awaiting[i].by = "handler" /\ awaiting[i].result = NoAnswer

\* the physicTick handler, lines 36-41, a timer callback: updateNavigation
\* while navigating, then updateMemoryData
PhysicTick(blocks) ==
    /\ awaiting = <<>>
    /\ \E n \in {IF controller.isNavigating
                 THEN updateNavigation(controller, botPos, botYaw, now)
                 ELSE [controller |-> controller, yaw |-> botYaw, replan |-> FALSE]} :
       \E r \in {updateMemoryData(n.controller, blocks, now)} :
          /\ controller' = r.controller
          /\ botYaw' = n.yaw
          /\ awaiting' = IF n.replan THEN <<Waiting("replanPath", "timer")>> ELSE awaiting
          /\ timers' = timers \o r.timer
          /\ firstInsertion' = FirstInsertions(firstInsertion, r.seen)
    /\ UNCHANGED <<variant, now, botPos, world, worldEdits>>
    /\ UNCHANGED <<percVars, navVars, nav2Vars, nav3Vars, histVars>>
    /\ UNCHANGED <<astar, suspended, blockCache, probe>>

\* the oldest processBatch callback, lines 77-100: the time it stamps is the
\* one of the call that made it
ProcessBatch ==
    /\ awaiting = <<>>
    /\ timers /= <<>>
    /\ \E t \in {Head(timers)} :
       \E r \in {processBatch(controller.memoryBlocks, t.blocks, t.processedCount, t.now)} :
          /\ controller' = [controller EXCEPT !.memoryBlocks = r.memoryBlocks]
          /\ timers' = IF r.processedCount < Len(t.blocks)
                       THEN Append(Tail(timers), [t EXCEPT !.processedCount = r.processedCount])
                       ELSE Tail(timers)
          /\ firstInsertion' = FirstInsertions(firstInsertion, r.memoryBlocks)
    /\ UNCHANGED <<envVars, percVars, navVars, nav2Vars, nav3Vars, histVars>>
    /\ UNCHANGED <<astar, suspended, blockCache, probe, awaiting>>

InitMemory == InitWith("2D", FenceWorld)

NextMemory ==
    \/ Tick(memoryUpdateInterval, MaxMemoryTicks * memoryUpdateInterval)
    \/ \E blocks \in VisibleLists : PhysicTick(blocks)
    \/ ProcessBatch

SpecMemory == InitMemory /\ [][NextMemory]_vars

\* C33: every record of memoryBlocks has the type and the firstSeenTime its
\* position had when it was inserted for the first time in the run.
C33_InsertOnce ==
    \A i \in 1..Len(controller.memoryBlocks) :
        LET e == controller.memoryBlocks[i]
        IN /\ e.position \in DOMAIN firstInsertion
           /\ e.type = firstInsertion[e.position].type
           /\ e.firstSeenTime = firstInsertion[e.position].firstSeenTime

\* C34: once no processBatch callback is left to run, memoryBlocks holds at
\* most maxMemorySize records.
C34_MemoryWithinLimit ==
    timers = <<>> => Len(controller.memoryBlocks) <= maxMemorySize

-----------------------------------------------------------------------------
(* Navigation commands, the pathfinder's answers and the continuations of    *)
(* navigateTo and replanPath, with the physicTick handler in between.        *)

\* where the bot may stand and where it may be sent
ControllerPositions == {CellCentre(0, 1, 0), CellCentre(3, 1, 0)}
ControllerTargets == {CellCentre(3, 1, 0), CellCentre(5, 1, 0)}

\* what the perception may show at a physicTick: nothing, or two floor blocks
ControllerLists ==
    {<<>>, <<[position |-> Pos(2 * U, 0, 0), type |-> "stone"],
             [position |-> Pos(4 * U, 0, 0), type |-> "stone"]>>}

\* what exploreToTarget may answer: null, an empty array, or the bot's
\* position and a next step
PathfinderResults == {Null, [array |-> <<>>], [array |-> <<botPos, CellCentre(1, 1, 0)>>]}

\* path && path.length > 0
PathFound(result) == result /= NoAnswer /\ result /= Null /\ Len(result.array) > 0

\* a chat line or socket frame that calls navigateTo(target), lines 162-175
NavigateTo(target) ==
    /\ HandlerMayRun
    /\ controller' = navigateToBegin(controller, target)
    /\ awaiting' = Append(awaiting, Waiting("navigateTo", "handler"))
    /\ UNCHANGED <<envVars, percVars, navVars, nav2Vars, nav3Vars, histVars>>
    /\ UNCHANGED <<astar, suspended, blockCache, probe, timers, firstInsertion>>

\* a chat line or socket frame that calls stop(), lines 380-396
Stop ==
    /\ HandlerMayRun
    /\ controller' = stopNavigation(controller)
    /\ UNCHANGED <<envVars, percVars, navVars, nav2Vars, nav3Vars, histVars>>
    /\ UNCHANGED <<astar, suspended, blockCache, probe, awaiting, timers, firstInsertion>>

\* exploreToTarget answers the oldest call that has no answer yet
PathfinderAnswers(result) ==
    /\ \E i \in 1..Len(awaiting) :
          /\ awaiting[i].result = NoAnswer
          /\ \A j \in 1..(i - 1) : awaiting[j].result /= NoAnswer
          /\ awaiting' = [awaiting EXCEPT ![i].result = result]
    /\ UNCHANGED <<envVars, percVars, navVars, nav2Vars, nav3Vars, histVars>>
    /\ UNCHANGED <<astar, suspended, blockCache, probe, controller, timers, firstInsertion>>

\* navigateTo after its await, lines 176-208.  With target null and something
\* remembered, findNearestMemoryBlockToTarget throws on target.x and the catch
\* of line 204 stops the navigation; with nothing remembered it returns null.
\* The call of line 192 runs to its own await within this job.
NavigateToResume ==
    /\ awaiting /= <<>>
    /\ Head(awaiting).op = "navigateTo"
    /\ Head(awaiting).result /= NoAnswer
    /\ \E path \in {Head(awaiting).result} :
       \E nearest \in {IF PathFound(path) \/ controller.target = Null THEN Null
                       ELSE findNearestMemoryBlockToTarget(controller, controller.target)} :
          IF PathFound(path)
          THEN /\ controller' = [controller EXCEPT !.currentPath = path.array, !.currentWaypointIndex = 0]
               /\ awaiting' = Tail(awaiting)
          ELSE IF nearest /= Null
          THEN /\ controller' = navigateToBegin(controller, nearest)
               /\ awaiting' = Append(Tail(awaiting), Waiting("navigateTo", "job"))
          ELSE /\ controller' = stopNavigation(controller)
               /\ awaiting' = Tail(awaiting)
    /\ UNCHANGED <<envVars, percVars, navVars, nav2Vars, nav3Vars, histVars>>
    /\ UNCHANGED <<astar, suspended, blockCache, probe, timers, firstInsertion>>

\* replanPath after its await, lines 328-337
ReplanPathResume ==
    /\ awaiting /= <<>>
    /\ Head(awaiting).op = "replanPath"
    /\ Head(awaiting).result /= NoAnswer
    /\ \E newPath \in {Head(awaiting).result} :
          controller' = IF PathFound(newPath)
                        THEN [controller EXCEPT !.currentPath = newPath.array, !.currentWaypointIndex = 0]
                        ELSE stopNavigation(controller)
    /\ awaiting' = Tail(awaiting)
    /\ UNCHANGED <<envVars, percVars, navVars, nav2Vars, nav3Vars, histVars>>
    /\ UNCHANGED <<astar, suspended, blockCache, probe, timers, firstInsertion>>

\* the bot is moved by the physics between two callbacks
ControllerBotMove(p) == awaiting = <<>> /\ BotMove(p)

InitController == InitWith("2D", FenceWorld)

NextController ==
    \/ \E target \in ControllerTargets : NavigateTo(target)
    \/ Stop
    \/ \E result \in PathfinderResults : PathfinderAnswers(result)
    \/ NavigateToResume
    \/ ReplanPathResume
    \/ \E blocks \in ControllerLists : PhysicTick(blocks)
    \/ \E p \in ControllerPositions : ControllerBotMove(p)

SpecController == InitController /\ [][NextController]_vars

\* every answer is delivered and every continuation runs
SpecControllerFair ==
    /\ InitController
    /\ [][NextController]_vars
    /\ WF_vars(\E result \in PathfinderResults : PathfinderAnswers(result))
    /\ WF_vars(NavigateToResume)
    /\ WF_vars(ReplanPathResume)

PathAnswered == \E i \in 1..Len(awaiting) : PathFound(awaiting[i].result)

Stopped ==
    /\ ~controller.isNavigating
    /\ controller.target = Null
    /\ controller.currentTarget = Null
    /\ controller.currentPath = <<>>
    /\ controller.currentWaypointIndex = 0
    /\ controller.movementState = {}

\* C32: a stopped controller stays stopped through every step that is not a
\* call of navigateTo by a command.
C32_StaysStopped ==
    [][(Stopped /\ ~(\E target \in ControllerTargets : NavigateTo(target))) => Stopped']_vars

====
